---- MODULE Spec2Model ----
(***************************************************************************)
(* History-index sharding engine and reverse post-state reconstruction of  *)
(* the storage provider (crates/storage/provider, DatabaseProvider) and    *)
(* the IndexAccountHistory / IndexStorageHistory stages that drive it.     *)
(*                                                                         *)
(* Tables are functions from keys to values; a cursor walks the keys of a  *)
(* table in key order.  Block numbers, addresses and storage keys are      *)
(* small naturals.                                                         *)
(***************************************************************************)
EXTENDS Naturals, Integers, Sequences, FiniteSets, TLC

\* Highest block number the execution stage produces in the account model.
MaxBlock == 5

\* Highest block number the execution stage produces in the storage model.
MaxStorageBlock == 3

\* sharded_key::NUM_OF_INDICES_IN_SHARD, scaled down so that shards fill up
\* within MaxBlock blocks.
NUM_OF_INDICES_IN_SHARD == 2

\* u64::MAX, the highest_block_number of the open shard: above every block.
U64_MAX == MaxBlock + MaxStorageBlock + 1

Addresses == {1, 2}

StorageKeys == {1, 2}

\* The (address, storage_key) pairs that have storage in the model.
StorageSlots == {<<1, 1>>, <<1, 2>>, <<2, 2>>}

\* Option::None
None == "None"

\* Highest block number written in the reverse-reconstruction model.
MaxReconBlock == 2

\* Highest block number appended in the chain model.
MaxChainBlock == 2

\* How many blocks one call of append_blocks_with_post_state is given.
BatchSizes == {1, 2}

\* Account values.
Accounts == {"account1", "account2"}

\* Storage values; 0 is U256::ZERO.
StorageValues == {0, 1}

\* The addresses and the (address, storage_key) pairs written in the
\* reverse-reconstruction model.
ReconAddresses == {1}
ReconSlots == {<<1, 1>>}

VARIABLES
    AccountChangeSet,   \* set of rows [block, address, info]
    StorageChangeSet,   \* set of rows [block, address, key, value]
    AccountHistory,     \* <<address, highest_block_number>> -> list of blocks
    StorageHistory,     \* <<address, storage_key, highest_block_number>> -> list
    SyncStage,          \* stage id -> checkpoint block number
    last,               \* the last operation: its name, inputs and the table before it
    PlainAccountState,  \* address -> account
    PlainStorageState,  \* set of dup rows [address, key, value]
    BlockBodyIndices,   \* block -> [first_tx_num, tx_count]
    Receipts,           \* tx number -> receipt
    result,             \* what the last provider call returned
    junk                \* whether a changeset row has been overwritten with junk

\* The tables reverse reconstruction reads and writes besides the changesets.
stateVars == <<PlainAccountState, PlainStorageState, BlockBodyIndices, Receipts, result,
               junk>>

VARIABLES
    Headers,            \* block -> header [number, state_root]
    CanonicalHeaders,   \* block -> block hash
    HeaderNumbers,      \* block hash -> block
    HeaderTD,           \* block -> total difficulty
    BlockOmmers,        \* block -> ommers
    BlockWithdrawals,   \* block -> withdrawals
    Transactions,       \* tx number -> transaction [hash]
    TxSenders,          \* tx number -> sender
    TxHashNumber,       \* tx hash -> tx number
    TransactionBlock,   \* last tx number of a block -> block
    HashedAccount,      \* keccak256(address) -> account
    HashedStorage,      \* set of dup rows [address, key, value], both keys hashed
    AccountsTrie,       \* the state root the flushed trie nodes commit to
    stage_checkpoint,   \* stage id -> stage-specific progress of its checkpoint
    PostStates          \* block -> the PostState written forward for it

\* The block tables.
blockVars == <<Headers, CanonicalHeaders, HeaderNumbers, HeaderTD, BlockOmmers,
               BlockWithdrawals, Transactions, TxSenders, TxHashNumber, TransactionBlock>>

\* The tables and records of the chain model besides those above.
chainVars == <<blockVars, HashedAccount, HashedStorage, AccountsTrie, stage_checkpoint,
               PostStates>>

vars == <<AccountChangeSet, StorageChangeSet, AccountHistory, StorageHistory,
          SyncStage, last, stateVars, chainVars>>

----------------------------------------------------------------------------
(* Sequences and ordered tables *)

EmptyTable == <<>>

\* The value of Body at the value of expr, which is evaluated once.
Bind(expr, Body(_)) == CHOOSE r \in {Body(x) : x \in {expr}} : TRUE

Min(S) == CHOOSE x \in S : \A y \in S : x <= y

RECURSIVE SortedSeq(_)
\* The elements of a finite set of numbers in ascending order.
SortedSeq(S) ==
    IF S = {} THEN <<>> ELSE LET m == Min(S) IN <<m>> \o SortedSeq(S \ {m})

\* Lexicographic order of two keys of the same length (big-endian key bytes).
KeyLess(k1, k2) ==
    \E i \in 1..Len(k1) :
        /\ k1[i] < k2[i]
        /\ \A j \in 1..(i - 1) : k1[j] = k2[j]

\* tx.put: insert or overwrite.
Put(tbl, key, value) == (key :> value) @@ tbl

\* tx.delete / cursor.delete_current.
Delete(tbl, key) == [k \in (DOMAIN tbl) \ {key} |-> tbl[k]]

\* cursor.seek_exact: the key when present.
SeekExact(tbl, key) == IF key \in DOMAIN tbl THEN key ELSE None

\* cursor.prev() after the entry at `key` was deleted: the entry before it.
Prev(tbl, key) ==
    LET below == {k \in DOMAIN tbl : KeyLess(k, key)}
    IN  IF below = {} THEN None
        ELSE CHOOSE k \in below : \A o \in below : o = k \/ KeyLess(o, k)

RECURSIVE TakeWhileLessEq(_, _)
\* Mutant of TakeWhileLess: keeps the block the unwind starts at.
TakeWhileLessEq(list, block_number) ==
    IF list = <<>> \/ ~(Head(list) <= block_number) THEN <<>>
    ELSE <<Head(list)>> \o TakeWhileLessEq(Tail(list), block_number)

RECURSIVE TakeWhileLess(_, _)
\* list.iter(0).take_while(|i| *i < block_number)
TakeWhileLess(list, block_number) ==
    IF list = <<>> \/ ~(Head(list) < block_number) THEN <<>>
    ELSE <<Head(list)>> \o TakeWhileLess(Tail(list), block_number)

RECURSIVE ChunksOneLonger(_)
\* Mutant of Chunks: groups of one entry more than the shard size.
ChunksOneLonger(list) ==
    IF list = <<>> THEN <<>>
    ELSE IF Len(list) <= NUM_OF_INDICES_IN_SHARD + 1 THEN <<list>>
    ELSE <<SubSeq(list, 1, NUM_OF_INDICES_IN_SHARD + 1)>>
            \o ChunksOneLonger(SubSeq(list, NUM_OF_INDICES_IN_SHARD + 2, Len(list)))

RECURSIVE Chunks(_)
\* itertools chunks(NUM_OF_INDICES_IN_SHARD): consecutive groups of that
\* size, the last one possibly shorter; no group for an empty list.
Chunks(list) ==
    IF list = <<>> THEN <<>>
    ELSE IF Len(list) <= NUM_OF_INDICES_IN_SHARD THEN <<list>>
    ELSE <<SubSeq(list, 1, NUM_OF_INDICES_IN_SHARD)>>
            \o Chunks(SubSeq(list, NUM_OF_INDICES_IN_SHARD + 1, Len(list)))

----------------------------------------------------------------------------
(* Account history index *)

\* BTreeMap<Address, Vec<u64>>: per address, the blocks of the range with a
\* changeset row of that address, in walk (ascending) order.
get_account_transition_ids_from_changeset(changeset, lo, hi) ==
    LET rows == {r \in changeset : lo <= r.block /\ r.block <= hi}
        addrs == {r.address : r \in rows}
    IN  [a \in addrs |-> SortedSeq({r.block : r \in {x \in rows : x.address = a}})]

\* Deletes the shard keyed u64::MAX when there is one and returns its list.
take_last_account_shard(tbl, address) ==
    LET last_key == SeekExact(tbl, <<address, U64_MAX>>)
    IN  IF last_key # None
        THEN [tbl |-> Delete(tbl, last_key), list |-> tbl[last_key]]
        ELSE [tbl |-> tbl, list |-> <<>>]

RECURSIVE PutAccountChunksKeyedByFirst(_, _, _)
\* Mutant of PutAccountChunks: keys a closed shard by its first block.
PutAccountChunksKeyedByFirst(tbl, address, chunks) ==
    IF chunks = <<>> THEN tbl
    ELSE LET list == Head(chunks)
         IN  PutAccountChunksKeyedByFirst(Put(tbl, <<address, list[1]>>, list),
                                          address, Tail(chunks))

RECURSIVE PutAccountChunks(_, _, _)
PutAccountChunks(tbl, address, chunks) ==
    IF chunks = <<>> THEN tbl
    ELSE LET list == Head(chunks)
         IN  PutAccountChunks(Put(tbl, <<address, list[Len(list)]>>, list),
                              address, Tail(chunks))

\* Mutant of InsertAccountIndices: a last chunk that is full is closed under
\* its last block and no open shard is written.
InsertAccountIndicesClosingFull(tbl, address, indices) ==
    LET taken == take_last_account_shard(tbl, address)
        last_shard == taken.list \o indices
        all_chunks == Chunks(last_shard)
        n == Len(all_chunks)
    IN  IF n > 0 /\ Len(all_chunks[n]) < NUM_OF_INDICES_IN_SHARD
        THEN Put(PutAccountChunks(taken.tbl, address, SubSeq(all_chunks, 1, n - 1)),
                 <<address, U64_MAX>>, all_chunks[n])
        ELSE PutAccountChunks(taken.tbl, address, all_chunks)

\* One iteration of the loop of insert_account_history_index.
InsertAccountIndices(tbl, address, indices) ==
    LET taken == take_last_account_shard(tbl, address)
        last_shard == taken.list \o indices
        all_chunks == Chunks(last_shard)
        n == Len(all_chunks)
        chunks == SubSeq(all_chunks, 1, n - 1)
        closed == PutAccountChunks(taken.tbl, address, chunks)
    IN  IF n > 0 THEN Put(closed, <<address, U64_MAX>>, all_chunks[n])
        ELSE closed

RECURSIVE InsertAccountLoop(_, _, _)
InsertAccountLoop(tbl, account_transitions, addrs) ==
    IF addrs = <<>> THEN tbl
    ELSE InsertAccountLoop(
            InsertAccountIndices(tbl, Head(addrs), account_transitions[Head(addrs)]),
            account_transitions, Tail(addrs))

insert_account_history_index(tbl, account_transitions) ==
    InsertAccountLoop(tbl, account_transitions, SortedSeq(DOMAIN account_transitions))

RECURSIVE UnwindAccountWalkLeavingSurvivor(_, _, _, _)
\* Mutant of UnwindAccountWalk: a closed shard none of whose entries is
\* unwound is left under its key.
UnwindAccountWalkLeavingSurvivor(tbl, item, address, block_number) ==
    IF item = None THEN [tbl |-> tbl, part |-> <<>>]
    ELSE IF item[1] # address THEN [tbl |-> tbl, part |-> <<>>]
    ELSE LET list == tbl[item]
             deleted == Delete(tbl, item)
             first == Head(list)
         IN  IF first >= block_number
             THEN UnwindAccountWalkLeavingSurvivor(deleted, Prev(deleted, item), address,
                                                   block_number)
             ELSE IF block_number <= item[2]
             THEN [tbl |-> deleted, part |-> TakeWhileLess(list, block_number)]
             ELSE [tbl |-> tbl, part |-> <<>>]

RECURSIVE UnwindAccountWalkPastSurvivor(_, _, _, _)
\* Mutant of UnwindAccountWalk: the walk does not stop at a shard none of
\* whose entries is unwound.
UnwindAccountWalkPastSurvivor(tbl, item, address, block_number) ==
    IF item = None THEN [tbl |-> tbl, part |-> <<>>]
    ELSE IF item[1] # address THEN [tbl |-> tbl, part |-> <<>>]
    ELSE LET list == tbl[item]
             deleted == Delete(tbl, item)
             first == Head(list)
         IN  IF first >= block_number \/ block_number > item[2]
             THEN UnwindAccountWalkPastSurvivor(deleted, Prev(deleted, item), address,
                                                block_number)
             ELSE [tbl |-> deleted, part |-> TakeWhileLess(list, block_number)]

RECURSIVE UnwindAccountWalkAnyAddress(_, _, _, _)
\* Mutant of UnwindAccountWalk: the walk does not stop at the shard of
\* another address.
UnwindAccountWalkAnyAddress(tbl, item, address, block_number) ==
    IF item = None THEN [tbl |-> tbl, part |-> <<>>]
    ELSE LET list == tbl[item]
             deleted == Delete(tbl, item)
             first == Head(list)
         IN  IF first >= block_number
             THEN UnwindAccountWalkAnyAddress(deleted, Prev(deleted, item), address,
                                              block_number)
             ELSE IF block_number <= item[2]
             THEN [tbl |-> deleted, part |-> TakeWhileLess(list, block_number)]
             ELSE [tbl |-> deleted, part |-> list]

RECURSIVE UnwindAccountWalk(_, _, _, _)
\* The while loop of unwind_account_history_shards, `item` being the key the
\* cursor stands on.
UnwindAccountWalk(tbl, item, address, block_number) ==
    IF item = None THEN [tbl |-> tbl, part |-> <<>>]
    ELSE IF item[1] # address THEN [tbl |-> tbl, part |-> <<>>]
    ELSE LET list == tbl[item]
             deleted == Delete(tbl, item)
             first == Head(list)
         IN  IF first >= block_number
             THEN UnwindAccountWalk(deleted, Prev(deleted, item), address, block_number)
             ELSE IF block_number <= item[2]
             THEN [tbl |-> deleted, part |-> TakeWhileLess(list, block_number)]
             ELSE [tbl |-> deleted, part |-> list]

unwind_account_history_shards(tbl, address, block_number) ==
    UnwindAccountWalk(tbl, SeekExact(tbl, <<address, U64_MAX>>), address, block_number)

\* Mutant of UnwindAccountIndices: reinserts the kept part under its last block.
UnwindAccountIndicesKeyedByLast(tbl, address, rem_index) ==
    LET res == unwind_account_history_shards(tbl, address, rem_index)
    IN  IF res.part # <<>>
        THEN Put(res.tbl, <<address, res.part[Len(res.part)]>>, res.part)
        ELSE res.tbl

\* One iteration of the loop of unwind_account_history_indices.
UnwindAccountIndices(tbl, address, rem_index) ==
    LET res == unwind_account_history_shards(tbl, address, rem_index)
    IN  IF res.part # <<>> THEN Put(res.tbl, <<address, U64_MAX>>, res.part)
        ELSE res.tbl

\* Mutant of UnwindAccountLoop: unwinds the index of the first address only.
UnwindAccountLoopFirstOnly(tbl, last_indices, addrs) ==
    IF addrs = <<>> THEN tbl
    ELSE UnwindAccountIndices(tbl, Head(addrs), last_indices[Head(addrs)])

RECURSIVE UnwindAccountLoop(_, _, _)
UnwindAccountLoop(tbl, last_indices, addrs) ==
    IF addrs = <<>> THEN tbl
    ELSE UnwindAccountLoop(
            UnwindAccountIndices(tbl, Head(addrs), last_indices[Head(addrs)]),
            last_indices, Tail(addrs))

\* Mutant of unwind_account_history_indices: the fold is not reversed and
\* keeps, per address, the highest block of the range.
unwind_account_history_indices_from_highest(tbl, changeset, lo, hi) ==
    LET rows == {r \in changeset : lo <= r.block /\ r.block <= hi}
        addrs == {r.address : r \in rows}
        last_indices == [a \in addrs |->
            CHOOSE b \in {r.block : r \in {x \in rows : x.address = a}} :
                \A r \in {x \in rows : x.address = a} : r.block <= b]
    IN  UnwindAccountLoop(tbl, last_indices, SortedSeq(addrs))

\* Mutant of unwind_account_history_indices: walks the changeset rows of the
\* first block of the range only.
unwind_account_history_indices_first_block(tbl, changeset, lo, hi) ==
    LET rows == {r \in changeset : r.block = lo}
        addrs == {r.address : r \in rows}
        last_indices == [a \in addrs |-> lo]
    IN  UnwindAccountLoop(tbl, last_indices, SortedSeq(addrs))

unwind_account_history_indices(tbl, changeset, lo, hi) ==
    LET rows == {r \in changeset : lo <= r.block /\ r.block <= hi}
        addrs == {r.address : r \in rows}
        \* the reversed fold keeps, per address, the lowest block of the range
        last_indices == [a \in addrs |-> Min({r.block : r \in {x \in rows : x.address = a}})]
    IN  UnwindAccountLoop(tbl, last_indices, SortedSeq(addrs))

----------------------------------------------------------------------------
(* Storage history index *)

\* BTreeMap<(Address, H256), Vec<u64>>: per (address, storage key), the blocks
\* of the range with a changeset row of that slot, in walk (ascending) order.
get_storage_transition_ids_from_changeset(changeset, lo, hi) ==
    LET rows == {r \in changeset : lo <= r.block /\ r.block <= hi}
        slots == {<<r.address, r.key>> : r \in rows}
    IN  [s \in slots |->
            SortedSeq({r.block : r \in {x \in rows : <<x.address, x.key>> = s}})]

\* Deletes the shard keyed u64::MAX when there is one and returns its list.
take_last_storage_shard(tbl, address, storage_key) ==
    LET last_key == SeekExact(tbl, <<address, storage_key, U64_MAX>>)
    IN  IF last_key # None
        THEN [tbl |-> Delete(tbl, last_key), list |-> tbl[last_key]]
        ELSE [tbl |-> tbl, list |-> <<>>]

RECURSIVE PutStorageChunks(_, _, _, _)
PutStorageChunks(tbl, address, storage_key, chunks) ==
    IF chunks = <<>> THEN tbl
    ELSE LET list == Head(chunks)
         IN  PutStorageChunks(Put(tbl, <<address, storage_key, list[Len(list)]>>, list),
                              address, storage_key, Tail(chunks))

\* One iteration of the loop of insert_storage_history_index.
InsertStorageIndices(tbl, address, storage_key, indices) ==
    LET taken == take_last_storage_shard(tbl, address, storage_key)
        last_shard == taken.list \o indices
        all_chunks == Chunks(last_shard)
        n == Len(all_chunks)
        chunks == SubSeq(all_chunks, 1, n - 1)
        closed == PutStorageChunks(taken.tbl, address, storage_key, chunks)
    IN  IF n > 0 THEN Put(closed, <<address, storage_key, U64_MAX>>, all_chunks[n])
        ELSE closed

RECURSIVE SortedKeys(_)
\* The keys of a BTreeMap in iteration order.
SortedKeys(S) ==
    IF S = {} THEN <<>>
    ELSE LET m == CHOOSE k \in S : \A o \in S : o = k \/ KeyLess(k, o)
         IN  <<m>> \o SortedKeys(S \ {m})

RECURSIVE InsertStorageLoop(_, _, _)
InsertStorageLoop(tbl, storage_transitions, slots) ==
    IF slots = <<>> THEN tbl
    ELSE LET s == Head(slots)
         IN  InsertStorageLoop(
                InsertStorageIndices(tbl, s[1], s[2], storage_transitions[s]),
                storage_transitions, Tail(slots))

insert_storage_history_index(tbl, storage_transitions) ==
    InsertStorageLoop(tbl, storage_transitions, SortedKeys(DOMAIN storage_transitions))

RECURSIVE UnwindStorageWalkAnyKey(_, _, _, _, _)
\* Mutant of UnwindStorageWalk: walks on over the shards of the other storage
\* keys of the address.
UnwindStorageWalkAnyKey(tbl, item, address, storage_key, block_number) ==
    IF item = None THEN [tbl |-> tbl, part |-> <<>>]
    ELSE IF item[1] # address
    THEN [tbl |-> tbl, part |-> <<>>]
    ELSE LET list == tbl[item]
             deleted == Delete(tbl, item)
             first == Head(list)
         IN  IF first >= block_number
             THEN UnwindStorageWalkAnyKey(deleted, Prev(deleted, item), address,
                                          storage_key, block_number)
             ELSE IF block_number <= item[3]
             THEN [tbl |-> deleted, part |-> TakeWhileLess(list, block_number)]
             ELSE [tbl |-> deleted, part |-> list]

RECURSIVE UnwindStorageWalk(_, _, _, _, _)
\* The while loop of unwind_storage_history_shards, `item` being the key the
\* cursor stands on.
UnwindStorageWalk(tbl, item, address, storage_key, block_number) ==
    IF item = None THEN [tbl |-> tbl, part |-> <<>>]
    ELSE IF item[1] # address \/ item[2] # storage_key
    THEN [tbl |-> tbl, part |-> <<>>]
    ELSE LET list == tbl[item]
             deleted == Delete(tbl, item)
             first == Head(list)
         IN  IF first >= block_number
             THEN UnwindStorageWalk(deleted, Prev(deleted, item), address, storage_key,
                                    block_number)
             ELSE IF block_number <= item[3]
             THEN [tbl |-> deleted, part |-> TakeWhileLess(list, block_number)]
             ELSE [tbl |-> deleted, part |-> list]

unwind_storage_history_shards(tbl, address, storage_key, block_number) ==
    UnwindStorageWalk(tbl, SeekExact(tbl, <<address, storage_key, U64_MAX>>),
                      address, storage_key, block_number)

\* One iteration of the loop of unwind_storage_history_indices.
UnwindStorageIndices(tbl, address, storage_key, rem_index) ==
    LET res == unwind_storage_history_shards(tbl, address, storage_key, rem_index)
    IN  IF res.part # <<>>
        THEN Put(res.tbl, <<address, storage_key, U64_MAX>>, res.part)
        ELSE res.tbl

RECURSIVE UnwindStorageLoop(_, _, _)
UnwindStorageLoop(tbl, last_indices, slots) ==
    IF slots = <<>> THEN tbl
    ELSE LET s == Head(slots)
         IN  UnwindStorageLoop(
                UnwindStorageIndices(tbl, s[1], s[2], last_indices[s]),
                last_indices, Tail(slots))

unwind_storage_history_indices(tbl, changeset, lo, hi) ==
    LET rows == {r \in changeset : lo <= r.block /\ r.block <= hi}
        slots == {<<r.address, r.key>> : r \in rows}
        \* the reversed fold keeps, per slot, the lowest block of the range
        last_indices == [s \in slots |->
            Min({r.block : r \in {x \in rows : <<x.address, x.key>> = s}})]
    IN  UnwindStorageLoop(tbl, last_indices, SortedKeys(slots))

----------------------------------------------------------------------------
(* Reverse reconstruction of post states *)

\* Nothing returned yet.
NoResult == [kind |-> "None"]

\* Option<Option<Account>>::None of LocalPlainState: account state not known.
Unknown == "Unknown"

\* PostState::default()
EmptyPostState == [accounts |-> {}, storage |-> {}, receipts |-> <<>>]

SatSub(a, b) == IF a >= b THEN a - b ELSE 0

\* StoredBlockBodyIndices::last_tx_num
last_tx_num(body) == SatSub(body.first_tx_num + body.tx_count, 1)

\* StoredBlockBodyIndices::tx_num_range, as a set
tx_num_range(body) == {n \in 0..(body.first_tx_num + body.tx_count) :
                            body.first_tx_num <= n /\ n < body.first_tx_num + body.tx_count}

RECURSIVE Reverse(_)
Reverse(seq) == IF seq = <<>> THEN <<>> ELSE Reverse(Tail(seq)) \o <<Head(seq)>>

\* The rows of AccountChangeSet in walk order: by block, then by address.
AccountRows(rows) ==
    LET keys == SortedKeys({<<r.block, r.address>> : r \in rows})
    IN  [i \in 1..Len(keys) |->
            CHOOSE r \in rows : <<r.block, r.address>> = keys[i]]

\* The rows of StorageChangeSet in walk order: by block, address, storage key.
StorageRows(rows) ==
    LET keys == SortedKeys({<<r.block, r.address, r.key>> : r \in rows})
    IN  [i \in 1..Len(keys) |->
            CHOOSE r \in rows : <<r.block, r.address, r.key>> = keys[i]]

\* cursor.seek_by_key_subkey(address, key): the first dup row of the address
\* whose subkey is not below key, as a sequence of at most one row.
SeekByKeySubkey(rows, address, key) ==
    LET from == {r \in rows : r.address = address /\ r.key >= key}
    IN  IF from = {} THEN <<>>
        ELSE <<CHOOSE r \in from :
                \A o \in from : o = r \/ KeyLess(<<r.key, r.value>>, <<o.key, o.value>>)>>

\* seek_by_key_subkey(..).filter(|s| s.key == key).unwrap_or_default().value
PlainStorageValue(rows, address, key) ==
    LET found == SeekByKeySubkey(rows, address, key)
    IN  IF found # <<>> /\ found[1].key = key THEN found[1].value ELSE 0

\* block_states.entry(block_number).or_default(), then one change recorded.
AddAccountChange(block_states, block_number, change) ==
    LET post_state == IF block_number \in DOMAIN block_states
                      THEN block_states[block_number] ELSE EmptyPostState
    IN  Put(block_states, block_number,
            [post_state EXCEPT !.accounts = @ \cup {change}])

RECURSIVE AccountChangesLoopFromPlain(_, _, _, _)
\* Mutant of AccountChangesLoop: pairs every prior with the account of the
\* plain state, also when a younger row of the address has been seen.
AccountChangesLoopFromPlain(rows, local_plain_state, block_states, plain_accounts) ==
    IF rows = <<>>
    THEN [panic |-> FALSE, local |-> local_plain_state, states |-> block_states]
    ELSE LET block_number == Head(rows).block
             address == Head(rows).address
             old_info == Head(rows).info
             new_info == IF address \in DOMAIN plain_accounts
                         THEN plain_accounts[address] ELSE None
             local == Put(local_plain_state, address,
                          [account |-> old_info,
                           storage |-> IF address \in DOMAIN local_plain_state
                                       THEN local_plain_state[address].storage
                                       ELSE EmptyTable])
         IN  IF (old_info = None /\ new_info = None) \/ new_info = old_info
             THEN [panic |-> TRUE, local |-> local, states |-> block_states]
             ELSE AccountChangesLoopFromPlain(Tail(rows), local,
                    AddAccountChange(block_states, block_number,
                        [kind |-> IF old_info = None THEN "create"
                                  ELSE IF new_info = None THEN "destroy" ELSE "change",
                         address |-> address, old |-> old_info, new |-> new_info]),
                    plain_accounts)

RECURSIVE AccountChangesLoop(_, _, _, _)
\* "add account changeset changes": the rows come youngest first.
AccountChangesLoop(rows, local_plain_state, block_states, plain_accounts) ==
    IF rows = <<>>
    THEN [panic |-> FALSE, local |-> local_plain_state, states |-> block_states]
    ELSE LET block_number == Head(rows).block
             address == Head(rows).address
             old_info == Head(rows).info
             vacant == address \notin DOMAIN local_plain_state
             new_info == IF vacant
                         THEN IF address \in DOMAIN plain_accounts
                              THEN plain_accounts[address] ELSE None
                         ELSE local_plain_state[address].account
             local == IF vacant
                      THEN Put(local_plain_state, address,
                               [account |-> old_info, storage |-> EmptyTable])
                      ELSE [local_plain_state EXCEPT ![address].account = old_info]
         IN  IF old_info # None /\ new_info # None
             THEN IF new_info # old_info
                  THEN AccountChangesLoop(Tail(rows), local,
                            AddAccountChange(block_states, block_number,
                                [kind |-> "change", address |-> address,
                                 old |-> old_info, new |-> new_info]),
                            plain_accounts)
                  \* unreachable!("... an account changeset did not represent any change")
                  ELSE [panic |-> TRUE, local |-> local, states |-> block_states]
             ELSE IF old_info = None /\ new_info # None
             THEN AccountChangesLoop(Tail(rows), local,
                        AddAccountChange(block_states, block_number,
                            [kind |-> "create", address |-> address,
                             old |-> None, new |-> new_info]),
                        plain_accounts)
             ELSE IF old_info # None /\ new_info = None
             THEN AccountChangesLoop(Tail(rows), local,
                        AddAccountChange(block_states, block_number,
                            [kind |-> "destroy", address |-> address,
                             old |-> old_info, new |-> None]),
                        plain_accounts)
             \* unreachable!("... transitioned from no account to no account")
             ELSE [panic |-> TRUE, local |-> local, states |-> block_states]

RECURSIVE StorageChangesLoopFromPlain(_, _, _, _)
\* Mutant of StorageChangesLoop: pairs every prior with the value of the plain
\* state, also when a younger row of the slot has been seen.
StorageChangesLoopFromPlain(rows, local_plain_state, storage_changes, plain_storage) ==
    IF rows = <<>> THEN [local |-> local_plain_state, changes |-> storage_changes]
    ELSE LET row == Head(rows)
             address == row.address
             defaulted == IF address \in DOMAIN local_plain_state THEN local_plain_state
                          ELSE Put(local_plain_state, address,
                                   [account |-> Unknown, storage |-> EmptyTable])
             new_storage == PlainStorageValue(plain_storage, address, row.key)
             local == [defaulted EXCEPT ![address].storage = Put(@, row.key, row.value)]
             at == <<row.block, address>>
             changeset == IF at \in DOMAIN storage_changes
                          THEN storage_changes[at] ELSE EmptyTable
         IN  StorageChangesLoopFromPlain(Tail(rows), local,
                Put(storage_changes, at,
                    Put(changeset, row.key, <<row.value, new_storage>>)),
                plain_storage)

RECURSIVE StorageChangesLoop(_, _, _, _)
\* "add storage changeset changes": the rows come youngest first.
StorageChangesLoop(rows, local_plain_state, storage_changes, plain_storage) ==
    IF rows = <<>> THEN [local |-> local_plain_state, changes |-> storage_changes]
    ELSE LET row == Head(rows)
             address == row.address
             defaulted == IF address \in DOMAIN local_plain_state THEN local_plain_state
                          ELSE Put(local_plain_state, address,
                                   [account |-> Unknown, storage |-> EmptyTable])
             vacant == row.key \notin DOMAIN defaulted[address].storage
             new_storage == IF vacant
                            THEN PlainStorageValue(plain_storage, address, row.key)
                            ELSE defaulted[address].storage[row.key]
             local == [defaulted EXCEPT ![address].storage = Put(@, row.key, row.value)]
             at == <<row.block, address>>
             changeset == IF at \in DOMAIN storage_changes
                          THEN storage_changes[at] ELSE EmptyTable
         IN  StorageChangesLoop(Tail(rows), local,
                Put(storage_changes, at,
                    Put(changeset, row.key, <<row.value, new_storage>>)),
                plain_storage)

RECURSIVE ChangeStorageLoop(_, _, _)
\* block_states.entry(block_number).or_default().change_storage(..) for every
\* (block, address) of storage_changes.
ChangeStorageLoop(keys, storage_changes, block_states) ==
    IF keys = <<>> THEN block_states
    ELSE LET at == Head(keys)
             post_state == IF at[1] \in DOMAIN block_states
                           THEN block_states[at[1]] ELSE EmptyPostState
             changes == {[address |-> at[2], key |-> k,
                          old |-> storage_changes[at][k][1],
                          new |-> storage_changes[at][k][2]] :
                            k \in DOMAIN storage_changes[at]}
         IN  ChangeStorageLoop(Tail(keys), storage_changes,
                Put(block_states, at[1],
                    [post_state EXCEPT !.storage = @ \cup changes]))

RECURSIVE RevertStorageLoopKeepingZero(_, _, _, _)
\* Mutant of RevertStorageLoop: writes a restored value of zero as a row.
RevertStorageLoopKeepingZero(keys, storage, address, plain_storage) ==
    IF keys = <<>> THEN plain_storage
    ELSE LET storage_key == Head(keys)
             found == SeekByKeySubkey(plain_storage, address, storage_key)
             removed == IF found # <<>> /\ found[1].key = storage_key
                        THEN plain_storage \ {found[1]} ELSE plain_storage
         IN  RevertStorageLoopKeepingZero(Tail(keys), storage, address,
                removed \cup {[address |-> address, key |-> storage_key,
                               value |-> storage[storage_key]]})

RECURSIVE RevertStorageLoop(_, _, _, _)
\* "revert storages" of one address: delete the row of the key, then insert
\* the restored value unless it is zero.
RevertStorageLoop(keys, storage, address, plain_storage) ==
    IF keys = <<>> THEN plain_storage
    ELSE LET storage_key == Head(keys)
             storage_value == storage[storage_key]
             found == SeekByKeySubkey(plain_storage, address, storage_key)
             removed == IF found # <<>> /\ found[1].key = storage_key
                        THEN plain_storage \ {found[1]} ELSE plain_storage
             upserted == IF storage_value # 0
                         THEN removed \cup {[address |-> address, key |-> storage_key,
                                             value |-> storage_value]}
                         ELSE removed
         IN  RevertStorageLoop(Tail(keys), storage, address, upserted)

RECURSIVE RevertLoop(_, _, _, _)
\* The TAKE branch: writes local_plain_state back to the plain state tables.
RevertLoop(addrs, local_plain_state, plain_accounts, plain_storage) ==
    IF addrs = <<>> THEN [accounts |-> plain_accounts, storage |-> plain_storage]
    ELSE LET address == Head(addrs)
             account == local_plain_state[address].account
             storage == local_plain_state[address].storage
             accounts == IF account = Unknown THEN plain_accounts
                         ELSE IF account # None THEN Put(plain_accounts, address, account)
                         ELSE Delete(plain_accounts, address)
         IN  RevertLoop(Tail(addrs), local_plain_state, accounts,
                RevertStorageLoop(SortedSeq(DOMAIN storage), storage, address,
                                  plain_storage))

RECURSIVE ReceiptsLoop(_, _, _, _)
\* "iterate over block body and create ExecutionResult": the receipts read are
\* handed out in order, one per transaction of each block.
ReceiptsLoop(blocks, bodies, receipts, block_states) ==
    IF blocks = <<>> THEN block_states
    ELSE LET block_number == Head(blocks)
             count == Cardinality(tx_num_range(bodies[block_number]))
             given == IF count <= Len(receipts) THEN count ELSE Len(receipts)
             post_state == IF block_number \in DOMAIN block_states
                           THEN block_states[block_number] ELSE EmptyPostState
             added == IF given = 0 THEN block_states
                      ELSE Put(block_states, block_number,
                               [post_state EXCEPT
                                    !.receipts = @ \o SubSeq(receipts, 1, given)])
         IN  ReceiptsLoop(Tail(blocks), bodies,
                          SubSeq(receipts, given + 1, Len(receipts)), added)

\* get_take_block_execution_result_range::<TAKE>(lo..=hi) on the tables db:
\* what it returns and the tables it leaves.  A panic unwinds out of the
\* provider without a commit, so the tables stay as they were.
get_take_block_execution_result_range(take, db, lo, hi) ==
    IF lo > hi THEN [kind |-> "Ok", value |-> <<>>, db |-> db]
    ELSE
    LET blocks == SortedSeq({b \in DOMAIN db.BlockBodyIndices : lo <= b /\ b <= hi})
    IN  \* .expect("already checked if there are blocks")
        IF blocks = <<>> THEN [kind |-> "Panic", db |-> db]
        ELSE
        LET from_transaction_num == db.BlockBodyIndices[blocks[1]].first_tx_num
            to_transaction_num == last_tx_num(db.BlockBodyIndices[blocks[Len(blocks)]])
            receipt_keys == {n \in DOMAIN db.Receipts :
                                from_transaction_num <= n /\ n <= to_transaction_num}
            receipt_nums == SortedSeq(receipt_keys)
            receipts == [i \in 1..Len(receipt_nums) |-> db.Receipts[receipt_nums[i]]]
            storage_changeset ==
                {r \in db.StorageChangeSet : lo <= r.block /\ r.block <= hi}
            account_changeset ==
                {r \in db.AccountChangeSet : lo <= r.block /\ r.block <= hi}
            initial == [b \in {blocks[i] : i \in 1..Len(blocks)} |-> EmptyPostState]
            accounts == AccountChangesLoop(Reverse(AccountRows(account_changeset)),
                            EmptyTable, initial, db.PlainAccountState)
        IN  IF accounts.panic THEN [kind |-> "Panic", db |-> db]
            ELSE
            LET storages == StorageChangesLoop(Reverse(StorageRows(storage_changeset)),
                                accounts.local, EmptyTable, db.PlainStorageState)
                with_storage == ChangeStorageLoop(SortedKeys(DOMAIN storages.changes),
                                    storages.changes, accounts.states)
                reverted == RevertLoop(SortedSeq(DOMAIN storages.local), storages.local,
                                db.PlainAccountState, db.PlainStorageState)
                block_states == ReceiptsLoop(blocks, db.BlockBodyIndices, receipts,
                                             with_storage)
                order == SortedSeq(DOMAIN block_states)
                taken == [db EXCEPT
                            !.Receipts = [n \in (DOMAIN db.Receipts) \ receipt_keys |->
                                            db.Receipts[n]],
                            !.StorageChangeSet = db.StorageChangeSet \ storage_changeset,
                            !.AccountChangeSet = db.AccountChangeSet \ account_changeset,
                            !.PlainAccountState = reverted.accounts,
                            !.PlainStorageState = reverted.storage]
            IN  [kind |-> "Ok",
                 value |-> [i \in 1..Len(order) |->
                                [block |-> order[i], state |-> block_states[order[i]]]],
                 db |-> IF take THEN taken ELSE db]

----------------------------------------------------------------------------
(* Hashed state *)

\* keccak256 on the small keys of the model: injective, not order preserving.
keccak256(x) == (x * 3) % 5

\* walk_range(range) of a changeset table, as a set of rows.
WalkRange(changeset, lo, hi) == {r \in changeset : lo <= r.block /\ r.block <= hi}

RECURSIVE FoldAccounts(_, _)
\* .fold(BTreeMap::new(), |accounts, (_, account_before)| accounts.insert(..))
FoldAccounts(rows, accounts) ==
    IF rows = <<>> THEN accounts
    ELSE FoldAccounts(Tail(rows), Put(accounts, Head(rows).address, Head(rows).info))

RECURSIVE ApplyHashedAccounts(_, _, _)
\* Some(account): upsert; None: delete the row when there is one.
ApplyHashedAccounts(keys, accounts, hashed_accounts) ==
    IF keys = <<>> THEN hashed_accounts
    ELSE LET hashed_address == Head(keys)
             account == accounts[hashed_address]
         IN  ApplyHashedAccounts(Tail(keys), accounts,
                IF account # None THEN Put(hashed_accounts, hashed_address, account)
                ELSE IF hashed_address \in DOMAIN hashed_accounts
                     THEN Delete(hashed_accounts, hashed_address)
                     ELSE hashed_accounts)

\* Mutant of unwind_account_hashing: folds the rows oldest first, so the
\* youngest prior of the range wins.
unwind_account_hashing_youngest(hashed_accounts, changeset, lo, hi) ==
    LET folded == FoldAccounts(AccountRows(WalkRange(changeset, lo, hi)), EmptyTable)
        accounts == [h \in {keccak256(a) : a \in DOMAIN folded} |->
                        folded[CHOOSE a \in DOMAIN folded : keccak256(a) = h]]
    IN  ApplyHashedAccounts(SortedSeq(DOMAIN accounts), accounts, hashed_accounts)

\* unwind_account_hashing(lo..=hi) on HashedAccount.
unwind_account_hashing(hashed_accounts, changeset, lo, hi) ==
    LET folded == FoldAccounts(Reverse(AccountRows(WalkRange(changeset, lo, hi))),
                               EmptyTable)
        accounts == [h \in {keccak256(a) : a \in DOMAIN folded} |->
                        folded[CHOOSE a \in DOMAIN folded : keccak256(a) = h]]
    IN  ApplyHashedAccounts(SortedSeq(DOMAIN accounts), accounts, hashed_accounts)

RECURSIVE FoldStorages(_, _)
\* .fold(BTreeMap::new(), |accounts, (.., storage_entry)| accounts.insert(..))
FoldStorages(rows, storages) ==
    IF rows = <<>> THEN storages
    ELSE FoldStorages(Tail(rows),
            Put(storages, <<Head(rows).address, Head(rows).key>>, Head(rows).value))

\* Mutant of ApplyHashedStorages: upserts the value also when it is zero.
RECURSIVE ApplyHashedStoragesKeepingZero(_, _, _)
ApplyHashedStoragesKeepingZero(keys, storages, hashed_storage) ==
    IF keys = <<>> THEN hashed_storage
    ELSE LET hashed_address == Head(keys)[1]
             key == Head(keys)[2]
             value == storages[Head(keys)]
             found == SeekByKeySubkey(hashed_storage, hashed_address, key)
             removed == IF found # <<>> /\ found[1].key = key
                        THEN hashed_storage \ {found[1]} ELSE hashed_storage
         IN  ApplyHashedStoragesKeepingZero(Tail(keys), storages,
                removed \cup {[address |-> hashed_address, key |-> key, value |-> value]})

RECURSIVE ApplyHashedStorages(_, _, _)
\* Delete the row of the hashed key when there is one, then upsert the value
\* unless it is zero.
ApplyHashedStorages(keys, storages, hashed_storage) ==
    IF keys = <<>> THEN hashed_storage
    ELSE LET hashed_address == Head(keys)[1]
             key == Head(keys)[2]
             value == storages[Head(keys)]
             found == SeekByKeySubkey(hashed_storage, hashed_address, key)
             removed == IF found # <<>> /\ found[1].key = key
                        THEN hashed_storage \ {found[1]} ELSE hashed_storage
             upserted == IF value # 0
                         THEN removed \cup {[address |-> hashed_address, key |-> key,
                                             value |-> value]}
                         ELSE removed
         IN  ApplyHashedStorages(Tail(keys), storages, upserted)

\* The map of a fold re-keyed by (keccak256(address), keccak256(key)).
HashStorageKeys(folded) ==
    [h \in {<<keccak256(s[1]), keccak256(s[2])>> : s \in DOMAIN folded} |->
        folded[CHOOSE s \in DOMAIN folded : <<keccak256(s[1]), keccak256(s[2])>> = h]]

\* unwind_storage_hashing(range) on HashedStorage.
unwind_storage_hashing(hashed_storage, changeset, lo, hi) ==
    LET folded == FoldStorages(Reverse(StorageRows(WalkRange(changeset, lo, hi))),
                               EmptyTable)
        storages == HashStorageKeys(folded)
    IN  ApplyHashedStorages(SortedKeys(DOMAIN storages), storages, hashed_storage)

\* get_addresses_and_keys_of_changed_storages(lo..=hi), as (address, key) pairs.
get_addresses_and_keys_of_changed_storages(changeset, lo, hi) ==
    {<<r.address, r.key>> : r \in WalkRange(changeset, lo, hi)}

\* get_plainstate_storages: the plain state value of every pair, zero when
\* the slot has no row.
get_plainstate_storages(plain_storage, lists) ==
    [s \in lists |-> PlainStorageValue(plain_storage, s[1], s[2])]

\* insert_storage_for_hashing(storages) on HashedStorage.
insert_storage_for_hashing(hashed_storage, storages) ==
    LET hashed == HashStorageKeys(storages)
    IN  ApplyHashedStorages(SortedKeys(DOMAIN hashed), hashed, hashed_storage)

\* get_addresses_of_changed_accounts(lo..=hi)
get_addresses_of_changed_accounts(changeset, lo, hi) ==
    {r.address : r \in WalkRange(changeset, lo, hi)}

\* get_plainstate_accounts: the plain state account of every address.
get_plainstate_accounts(plain_accounts, lists) ==
    [a \in lists |-> IF a \in DOMAIN plain_accounts THEN plain_accounts[a] ELSE None]

\* Mutant of insert_account_for_hashing: upserts the accounts that exist and
\* leaves the hashed rows of the destroyed ones.
insert_account_for_hashing_keeping_destroyed(hashed_accounts, accounts) ==
    LET existing == {a \in DOMAIN accounts : accounts[a] # None}
        hashes_accounts == [h \in {keccak256(a) : a \in existing} |->
                                accounts[CHOOSE a \in existing : keccak256(a) = h]]
    IN  ApplyHashedAccounts(SortedSeq(DOMAIN hashes_accounts), hashes_accounts,
                            hashed_accounts)

\* insert_account_for_hashing(accounts) on HashedAccount.
insert_account_for_hashing(hashed_accounts, accounts) ==
    LET hashes_accounts == [h \in {keccak256(a) : a \in DOMAIN accounts} |->
                                accounts[CHOOSE a \in DOMAIN accounts : keccak256(a) = h]]
    IN  ApplyHashedAccounts(SortedSeq(DOMAIN hashes_accounts), hashes_accounts,
                            hashed_accounts)

\* StateRoot::incremental_root_with_updates: the root commits to the hashed
\* state, so it is represented by the hashed state itself.
incremental_root_with_updates(hashed_accounts, hashed_storage) ==
    <<hashed_accounts, hashed_storage>>

\* A state root no hashed state of the model has (no row ever holds zero).
BadStateRoot == <<EmptyTable, {[address |-> 0, key |-> 0, value |-> 0]}>>

----------------------------------------------------------------------------
(* Blocks *)

\* Hash of the block with the given number, and of the transaction with the
\* given number.
BlockHash(number) == 10 + number
TxHash(tx_num) == 20 + tx_num

\* Timestamp of Hardfork::Shanghai in the chain spec; a header's timestamp is
\* its block number.
ShanghaiTimestamp == 2

\* Mutant of get_or_take: with TAKE the last row it returns is left in the
\* table.
get_or_take_keeping_last(take, tbl, lo, hi) ==
    LET keys == {k \in DOMAIN tbl : lo <= k /\ k <= hi}
        order == SortedSeq(keys)
    IN  [items |-> [i \in 1..Len(order) |-> <<order[i], tbl[order[i]]>>],
         tbl |-> IF take
                 THEN [k \in (DOMAIN tbl) \ {x \in keys : x < hi} |-> tbl[k]]
                 ELSE tbl]

\* get_or_take::<T, TAKE>(lo..=hi) on a table keyed by numbers: the entries
\* of the range in key order, and the table it leaves.
get_or_take(take, tbl, lo, hi) ==
    LET keys == {k \in DOMAIN tbl : lo <= k /\ k <= hi}
        order == SortedSeq(keys)
    IN  [items |-> [i \in 1..Len(order) |-> <<order[i], tbl[order[i]]>>],
         tbl |-> IF take THEN [k \in (DOMAIN tbl) \ keys |-> tbl[k]] ELSE tbl]

\* Mutant of DeleteKeys: deletes the row of the first key only.
DeleteKeysFirstOnly(tbl, keys) ==
    IF keys = <<>> \/ Head(keys) \notin DOMAIN tbl THEN tbl
    ELSE Delete(tbl, Head(keys))

RECURSIVE DeleteKeys(_, _)
\* seek_exact(key) and delete_current() for every key of a list.
DeleteKeys(tbl, keys) ==
    IF keys = <<>> THEN tbl
    ELSE DeleteKeys(IF Head(keys) \in DOMAIN tbl THEN Delete(tbl, Head(keys))
                    ELSE tbl,
                    Tail(keys))

RECURSIVE OneBlockTx(_, _, _, _)
\* The inner loop of "Merge transaction into blocks": one transaction and one
\* sender per transaction number of the block.
OneBlockTx(count, transactions, senders, one_block_tx) ==
    IF count = 0
    THEN [kind |-> "Ok", txs |-> one_block_tx, transactions |-> transactions,
          senders |-> senders]
    ELSE IF transactions # <<>> /\ senders # <<>>
    THEN IF Head(transactions)[1] # Head(senders)[1]
         THEN [kind |-> "MismatchOfTransactionAndSenderId", txs |-> one_block_tx,
               transactions |-> transactions, senders |-> senders]
         ELSE OneBlockTx(count - 1, Tail(transactions), Tail(senders),
                Append(one_block_tx,
                       [transaction |-> Head(transactions)[2], signer |-> Head(senders)[2]]))
    ELSE IF transactions # <<>> \/ senders # <<>>
    THEN [kind |-> "MismatchOfTransactionAndSenderId", txs |-> one_block_tx,
          transactions |-> transactions, senders |-> senders]
    ELSE [kind |-> "BlockBodyTransactionCount", txs |-> one_block_tx,
          transactions |-> transactions, senders |-> senders]

RECURSIVE MergeBlockTx(_, _, _, _)
\* "Merge transaction into blocks"
MergeBlockTx(block_bodies, transactions, senders, block_tx) ==
    IF block_bodies = <<>> THEN [kind |-> "Ok", block_tx |-> block_tx]
    ELSE LET one == OneBlockTx(Cardinality(tx_num_range(Head(block_bodies)[2])),
                               transactions, senders, <<>>)
         IN  IF one.kind # "Ok" THEN [kind |-> one.kind, block_tx |-> block_tx]
             ELSE MergeBlockTx(Tail(block_bodies), one.transactions, one.senders,
                    Append(block_tx, <<Head(block_bodies)[1], one.txs>>))

\* get_take_block_transaction_range::<TAKE>(lo..=hi)
get_take_block_transaction_range(take, db, lo, hi) ==
    LET block_bodies == get_or_take(FALSE, db.BlockBodyIndices, lo, hi).items
    IN  IF block_bodies = <<>> THEN [kind |-> "Ok", block_tx |-> <<>>, db |-> db]
        ELSE
        LET first_transaction == block_bodies[1][2].first_tx_num
            last_transaction == last_tx_num(block_bodies[Len(block_bodies)][2])
        IN  IF last_transaction < first_transaction
            THEN [kind |-> "Ok",
                  block_tx |-> [i \in 1..Len(block_bodies) |-> <<block_bodies[i][1], <<>> >>],
                  db |-> db]
            ELSE
            LET transactions == get_or_take(take, db.Transactions,
                                            first_transaction, last_transaction)
                senders == get_or_take(take, db.TxSenders,
                                       first_transaction, last_transaction)
                hashes == [i \in 1..Len(transactions.items) |-> transactions.items[i][2].hash]
                tx_hash_number == IF take THEN DeleteKeys(db.TxHashNumber, hashes)
                                  ELSE db.TxHashNumber
                transaction_block ==
                    IF take /\ transactions.items # <<>>
                    THEN get_or_take(TRUE, db.TransactionBlock, transactions.items[1][1],
                            transactions.items[Len(transactions.items)][1]).tbl
                    ELSE db.TransactionBlock
                merged == MergeBlockTx(block_bodies, transactions.items, senders.items, <<>>)
            IN  [kind |-> merged.kind, block_tx |-> merged.block_tx,
                 db |-> [db EXCEPT !.Transactions = transactions.tbl,
                                   !.TxSenders = senders.tbl,
                                   !.TxHashNumber = tx_hash_number,
                                   !.TransactionBlock = transaction_block]]

RECURSIVE MergeBlocks(_, _, _, _, _, _)
\* "merge all into block": headers, hashes and transactions are zipped; ommers
\* and withdrawals are matched by block number and may be missing.
MergeBlocks(headers, hashes, block_tx, ommers, withdrawals, blocks) ==
    IF headers = <<>> \/ hashes = <<>> \/ block_tx = <<>> THEN blocks
    ELSE LET main_block_number == Head(headers)[1]
             header == Head(headers)[2]
             has_ommers == ommers # <<>> /\ Head(ommers)[1] = main_block_number
             shanghai_is_active == header.timestamp >= ShanghaiTimestamp
             has_withdrawals == /\ shanghai_is_active
                                /\ withdrawals # <<>>
                                /\ Head(withdrawals)[1] = main_block_number
         IN  MergeBlocks(Tail(headers), Tail(hashes), Tail(block_tx),
                IF has_ommers THEN Tail(ommers) ELSE ommers,
                IF has_withdrawals THEN Tail(withdrawals) ELSE withdrawals,
                Append(blocks,
                    [number |-> main_block_number,
                     hash |-> Head(hashes)[2],
                     state_root |-> header.state_root,
                     body |-> Head(block_tx)[2],
                     ommers |-> IF has_ommers THEN Head(ommers)[2] ELSE <<>>,
                     withdrawals |-> IF ~shanghai_is_active THEN None
                                     ELSE IF has_withdrawals THEN Head(withdrawals)[2]
                                     ELSE <<>>]))

\* get_take_block_range::<TAKE>(lo..=hi)
get_take_block_range(take, db, lo, hi) ==
    LET block_headers == get_or_take(take, db.Headers, lo, hi)
    IN  IF block_headers.items = <<>>
        THEN [kind |-> "Ok", blocks |-> <<>>, db |-> [db EXCEPT !.Headers = block_headers.tbl]]
        ELSE
        LET block_header_hashes == get_or_take(take, db.CanonicalHeaders, lo, hi)
            block_ommers == get_or_take(take, db.BlockOmmers, lo, hi)
            block_withdrawals == get_or_take(take, db.BlockWithdrawals, lo, hi)
            taken == [db EXCEPT !.Headers = block_headers.tbl,
                                !.CanonicalHeaders = block_header_hashes.tbl,
                                !.BlockOmmers = block_ommers.tbl,
                                !.BlockWithdrawals = block_withdrawals.tbl]
            block_tx == get_take_block_transaction_range(take, taken, lo, hi)
        IN  IF block_tx.kind # "Ok" THEN [kind |-> block_tx.kind, blocks |-> <<>>,
                                         db |-> block_tx.db]
            ELSE
            LET hashes == [i \in 1..Len(block_header_hashes.items) |->
                                block_header_hashes.items[i][2]]
                removed ==
                    IF take
                    THEN [block_tx.db EXCEPT
                            !.HeaderTD = get_or_take(TRUE, block_tx.db.HeaderTD, lo, hi).tbl,
                            !.HeaderNumbers = DeleteKeys(block_tx.db.HeaderNumbers, hashes)]
                    ELSE block_tx.db
            IN  [kind |-> "Ok",
                 blocks |-> MergeBlocks(block_headers.items, block_header_hashes.items,
                                block_tx.block_tx, block_ommers.items,
                                block_withdrawals.items, <<>>),
                 db |-> removed]

\* Mutant of update_pipeline_stages: updates the first row of SyncStage only.
update_pipeline_stages_first_row(db, block_number, drop_stage_checkpoint) ==
    LET first == CHOOSE stage_name \in DOMAIN db.SyncStage : stage_name = "Execution"
    IN  [db EXCEPT !.SyncStage[first] = block_number,
                   !.stage_checkpoint[first] =
                        IF drop_stage_checkpoint THEN None ELSE @]

\* Mutant of update_pipeline_stages: keeps the stage-specific progress of every
\* row whatever drop_stage_checkpoint says.
update_pipeline_stages_keeping_checkpoint(db, block_number, drop_stage_checkpoint) ==
    [db EXCEPT !.SyncStage = [stage_name \in DOMAIN db.SyncStage |-> block_number]]

\* Mutant of update_pipeline_stages: a row whose block number is below the
\* given one keeps it.
update_pipeline_stages_never_raising(db, block_number, drop_stage_checkpoint) ==
    [db EXCEPT !.SyncStage = [stage_name \in DOMAIN db.SyncStage |->
                                Min({db.SyncStage[stage_name], block_number})],
               !.stage_checkpoint =
                    [stage_name \in DOMAIN db.stage_checkpoint |->
                        IF drop_stage_checkpoint THEN None
                        ELSE db.stage_checkpoint[stage_name]]]

\* update_pipeline_stages(block_number, drop_stage_checkpoint): every row of
\* SyncStage gets the block number; its stage-specific progress is kept or
\* reset to the default.
update_pipeline_stages(db, block_number, drop_stage_checkpoint) ==
    [db EXCEPT !.SyncStage = [stage_name \in DOMAIN db.SyncStage |-> block_number],
               !.stage_checkpoint =
                    [stage_name \in DOMAIN db.stage_checkpoint |->
                        IF drop_stage_checkpoint THEN None
                        ELSE db.stage_checkpoint[stage_name]]]

----------------------------------------------------------------------------
(* Appending and taking blocks with their post state *)

\* insert_canonical_block: the rows of one block in the block tables.  Blocks
\* with an odd number carry ommers, blocks from Shanghai on carry withdrawals.
insert_canonical_block(db, block) ==
    LET number == block.number
        first == IF DOMAIN db.BlockBodyIndices = {} THEN 0
                 ELSE LET prev == CHOOSE x \in DOMAIN db.BlockBodyIndices :
                                    \A y \in DOMAIN db.BlockBodyIndices : y <= x
                      IN  db.BlockBodyIndices[prev].first_tx_num
                            + db.BlockBodyIndices[prev].tx_count
        txs == {n \in first..(first + block.tx_count) : n < first + block.tx_count}
    IN  [db EXCEPT
            !.Headers = Put(@, number, [number |-> number, timestamp |-> number,
                                        state_root |-> block.state_root]),
            !.CanonicalHeaders = Put(@, number, BlockHash(number)),
            !.HeaderNumbers = Put(@, BlockHash(number), number),
            !.HeaderTD = Put(@, number, number),
            !.BlockOmmers = IF number % 2 = 1 THEN Put(@, number, <<number>>) ELSE @,
            !.BlockWithdrawals = IF number >= ShanghaiTimestamp
                                 THEN Put(@, number, <<number>>) ELSE @,
            !.BlockBodyIndices = Put(@, number, [first_tx_num |-> first,
                                                 tx_count |-> block.tx_count]),
            !.Transactions = [n \in txs |-> [hash |-> TxHash(n)]] @@ @,
            !.TxSenders = [n \in txs |-> 1] @@ @,
            !.TxHashNumber = [h \in {TxHash(n) : n \in txs} |-> h - 20] @@ @,
            !.TransactionBlock = IF txs # {} THEN Put(@, first + block.tx_count - 1, number)
                                 ELSE @]

RECURSIVE WriteStorage(_, _)
\* Upsert of the new storage values; a value of zero deletes the row.
WriteStorage(changes, plain_storage) ==
    IF changes = <<>> THEN plain_storage
    ELSE LET c == Head(changes)
             removed == {r \in plain_storage : ~(r.address = c.address /\ r.key = c.key)}
         IN  WriteStorage(Tail(changes),
                IF c.new # 0
                THEN removed \cup {[address |-> c.address, key |-> c.key, value |-> c.new]}
                ELSE removed)

\* The elements of a finite set in some order.
RECURSIVE SetToSeq(_)
SetToSeq(S) == IF S = {} THEN <<>>
               ELSE LET x == CHOOSE y \in S : TRUE IN <<x>> \o SetToSeq(S \ {x})

\* PostState::write_to_db for one block: prior values into the changesets, new
\* values into the plain state, receipts at the block's transaction numbers.
write_to_db(db, number, post_state) ==
    LET body == db.BlockBodyIndices[number]
        destroyed == {c.address : c \in {x \in post_state.accounts : x.new = None}}
        written == {c \in post_state.accounts : c.new # None}
    IN  [db EXCEPT
            !.AccountChangeSet = @ \cup
                {[block |-> number, address |-> c.address, info |-> c.old] :
                    c \in post_state.accounts},
            !.StorageChangeSet = @ \cup
                {[block |-> number, address |-> c.address, key |-> c.key, value |-> c.old] :
                    c \in post_state.storage},
            !.PlainAccountState =
                [a \in ((DOMAIN @) \cup {c.address : c \in written}) \ destroyed |->
                    IF \E c \in written : c.address = a
                    THEN (CHOOSE c \in written : c.address = a).new
                    ELSE @[a]],
            !.PlainStorageState = WriteStorage(SetToSeq(post_state.storage), @),
            !.Receipts = [n \in {body.first_tx_num + i - 1 :
                                    i \in 1..Len(post_state.receipts)} |->
                            post_state.receipts[n - body.first_tx_num + 1]] @@ @]

\* Mutant of insert_hashes: flushes the trie updates before comparing the
\* state root.
insert_hashes_flushing_first(db, lo, hi, end_block_hash, expected_state_root) ==
    LET lists == get_addresses_and_keys_of_changed_storages(db.StorageChangeSet, lo, hi)
        storages == get_plainstate_storages(db.PlainStorageState, lists)
        addresses == get_addresses_of_changed_accounts(db.AccountChangeSet, lo, hi)
        accounts == get_plainstate_accounts(db.PlainAccountState, addresses)
        hashed == [db EXCEPT
                    !.HashedStorage = insert_storage_for_hashing(@, storages),
                    !.HashedAccount = insert_account_for_hashing(@, accounts)]
        state_root == incremental_root_with_updates(hashed.HashedAccount,
                                                    hashed.HashedStorage)
        flushed == [hashed EXCEPT !.AccountsTrie = state_root]
    IN  IF state_root # expected_state_root
        THEN [kind |-> "StateRootMismatch",
              error |-> [got |-> state_root, expected |-> expected_state_root,
                         block_number |-> hi, block_hash |-> end_block_hash],
              db |-> flushed]
        ELSE [kind |-> "Ok", error |-> <<>>, db |-> flushed]

\* insert_hashes(lo..=hi, end_block_hash, expected_state_root)
insert_hashes(db, lo, hi, end_block_hash, expected_state_root) ==
    LET lists == get_addresses_and_keys_of_changed_storages(db.StorageChangeSet, lo, hi)
        storages == get_plainstate_storages(db.PlainStorageState, lists)
        addresses == get_addresses_of_changed_accounts(db.AccountChangeSet, lo, hi)
        accounts == get_plainstate_accounts(db.PlainAccountState, addresses)
    IN  Bind([db EXCEPT
                !.HashedStorage = insert_storage_for_hashing(@, storages),
                !.HashedAccount = insert_account_for_hashing(@, accounts)],
        LAMBDA hashed :
        LET state_root == incremental_root_with_updates(hashed.HashedAccount,
                                                        hashed.HashedStorage)
        IN  IF state_root # expected_state_root
            THEN [kind |-> "StateRootMismatch",
                  error |-> [got |-> state_root, expected |-> expected_state_root,
                             block_number |-> hi, block_hash |-> end_block_hash],
                  db |-> hashed]
            ELSE [kind |-> "Ok", error |-> <<>>,
                  db |-> [hashed EXCEPT !.AccountsTrie = state_root]])

\* calculate_history_indices(lo..=hi)
calculate_history_indices(db, lo, hi) ==
    [db EXCEPT
        !.AccountHistory = insert_account_history_index(@,
            get_account_transition_ids_from_changeset(db.AccountChangeSet, lo, hi)),
        !.StorageHistory = insert_storage_history_index(@,
            get_storage_transition_ids_from_changeset(db.StorageChangeSet, lo, hi))]

RECURSIVE InsertBlocks(_, _)
InsertBlocks(db, blocks) ==
    IF blocks = <<>> THEN db
    ELSE InsertBlocks(insert_canonical_block(db, Head(blocks)), Tail(blocks))

RECURSIVE WriteStates(_, _, _)
WriteStates(db, blocks, states) ==
    IF blocks = <<>> THEN db
    ELSE WriteStates(write_to_db(db, Head(blocks).number, Head(states)),
                     Tail(blocks), Tail(states))

\* append_blocks_with_post_state(blocks, state); state holds one PostState per
\* block.
append_blocks_with_post_state(db, blocks, state) ==
    IF blocks = <<>> THEN [kind |-> "Ok", error |-> <<>>, db |-> db]
    ELSE
    LET new_tip_number == blocks[Len(blocks)].number
        first_number == blocks[1].number
        last_block_hash == BlockHash(new_tip_number)
        expected_state_root == blocks[Len(blocks)].state_root
    IN  Bind(insert_hashes(WriteStates(InsertBlocks(db, blocks), blocks, state),
                           first_number, new_tip_number, last_block_hash,
                           expected_state_root),
        LAMBDA hashes :
        IF hashes.kind # "Ok" THEN hashes
        ELSE [kind |-> "Ok", error |-> <<>>,
              db |-> update_pipeline_stages(
                        calculate_history_indices(hashes.db, first_number, new_tip_number),
                        new_tip_number, FALSE)])

\* Mutant of get_take_block_and_execution_range: takes the blocks of the range
\* before it compares the state root.
get_take_block_and_execution_range_taking_first(take, db, lo, hi) ==
    LET unwound ==
            IF take
            THEN [db EXCEPT
                    !.HashedAccount = unwind_account_hashing(@, db.AccountChangeSet, lo, hi),
                    !.AccountHistory =
                        unwind_account_history_indices(@, db.AccountChangeSet, lo, hi),
                    !.HashedStorage = unwind_storage_hashing(@, db.StorageChangeSet, lo, hi),
                    !.StorageHistory =
                        unwind_storage_history_indices(@, db.StorageChangeSet, lo, hi)]
            ELSE db
        new_state_root == incremental_root_with_updates(unwound.HashedAccount,
                                                        unwound.HashedStorage)
        parent_number == SatSub(lo, 1)
        blocks == get_take_block_range(take, unwound, lo, hi)
    IN  IF blocks.kind # "Ok"
        THEN [kind |-> blocks.kind, error |-> <<>>, value |-> <<>>, db |-> blocks.db]
        ELSE IF take /\ parent_number \notin DOMAIN blocks.db.Headers
        THEN [kind |-> "HeaderNotFound", error |-> parent_number, value |-> <<>>,
              db |-> blocks.db]
        ELSE IF take /\ new_state_root # blocks.db.Headers[parent_number].state_root
        THEN [kind |-> "UnwindStateRootMismatch",
              error |-> [got |-> new_state_root,
                         expected |-> blocks.db.Headers[parent_number].state_root,
                         block_number |-> parent_number,
                         block_hash |-> blocks.db.CanonicalHeaders[parent_number]],
              value |-> <<>>, db |-> blocks.db]
        ELSE
        LET flushed == IF take THEN [blocks.db EXCEPT !.AccountsTrie = new_state_root]
                       ELSE blocks.db
            execution_res == get_take_block_execution_result_range(take, flushed, lo, hi)
        IN  IF execution_res.kind # "Ok"
            THEN [kind |-> execution_res.kind, error |-> <<>>, value |-> <<>>,
                  db |-> flushed]
            ELSE
            LET n == Min({Len(blocks.blocks), Len(execution_res.value)})
                bodies == [execution_res.db EXCEPT !.BlockBodyIndices =
                            get_or_take(TRUE, @, lo, hi).tbl]
            IN  [kind |-> "Ok", error |-> <<>>,
                 value |-> [i \in 1..n |-> [block |-> blocks.blocks[i],
                                            state |-> execution_res.value[i].state]],
                 db |-> IF take /\ blocks.blocks # <<>>
                        THEN update_pipeline_stages(bodies,
                                SatSub(blocks.blocks[1].number, 1), TRUE)
                        ELSE execution_res.db]

\* get_take_block_and_execution_range::<TAKE>(lo..=hi)
get_take_block_and_execution_range(take, db, lo, hi) ==
    Bind(IF take
         THEN [db EXCEPT
                !.HashedAccount = unwind_account_hashing(@, db.AccountChangeSet, lo, hi),
                !.AccountHistory =
                    unwind_account_history_indices(@, db.AccountChangeSet, lo, hi),
                !.HashedStorage = unwind_storage_hashing(@, db.StorageChangeSet, lo, hi),
                !.StorageHistory =
                    unwind_storage_history_indices(@, db.StorageChangeSet, lo, hi)]
         ELSE db,
    LAMBDA unwound :
    LET new_state_root == incremental_root_with_updates(unwound.HashedAccount,
                                                        unwound.HashedStorage)
        parent_number == SatSub(lo, 1)
    IN  IF take /\ parent_number \notin DOMAIN unwound.Headers
        THEN [kind |-> "HeaderNotFound", error |-> parent_number, value |-> <<>>,
              db |-> unwound]
        ELSE IF take /\ new_state_root # unwound.Headers[parent_number].state_root
        THEN IF parent_number \notin DOMAIN unwound.CanonicalHeaders
             THEN [kind |-> "HeaderNotFound", error |-> parent_number, value |-> <<>>,
                   db |-> unwound]
             ELSE [kind |-> "UnwindStateRootMismatch",
                   error |-> [got |-> new_state_root,
                              expected |-> unwound.Headers[parent_number].state_root,
                              block_number |-> parent_number,
                              block_hash |-> unwound.CanonicalHeaders[parent_number]],
                   value |-> <<>>, db |-> unwound]
        ELSE
        Bind(get_take_block_range(take,
                IF take THEN [unwound EXCEPT !.AccountsTrie = new_state_root]
                ELSE unwound, lo, hi),
        LAMBDA blocks :
        IF blocks.kind # "Ok"
        THEN [kind |-> blocks.kind, error |-> <<>>, value |-> <<>>, db |-> blocks.db]
        ELSE
        Bind(get_take_block_execution_result_range(take, blocks.db, lo, hi),
        LAMBDA execution_res :
        IF execution_res.kind # "Ok"
        THEN [kind |-> execution_res.kind, error |-> <<>>, value |-> <<>>,
              db |-> blocks.db]
        ELSE
        LET n == Min({Len(blocks.blocks), Len(execution_res.value)})
            blocks_with_exec_result ==
                [i \in 1..n |-> [block |-> blocks.blocks[i],
                                 state |-> execution_res.value[i].state]]
            bodies == [execution_res.db EXCEPT !.BlockBodyIndices =
                        get_or_take(TRUE, @, lo, hi).tbl]
            updated == IF blocks.blocks # <<>>
                       THEN update_pipeline_stages(bodies,
                                SatSub(blocks.blocks[1].number, 1), TRUE)
                       ELSE bodies
        IN  [kind |-> "Ok", error |-> <<>>, value |-> blocks_with_exec_result,
             db |-> IF take THEN updated ELSE execution_res.db])))

----------------------------------------------------------------------------
(* Stages *)

NoOp == [op |-> "init", lo |-> 0, hi |-> 0, before |-> EmptyTable]

\* Execution stage: writes the changeset rows of the next block.
ExecutionExecuteAccounts ==
    /\ SyncStage.Execution < MaxBlock
    /\ \E changed \in SUBSET Addresses :
        LET b == SyncStage.Execution + 1
        IN  /\ AccountChangeSet' = AccountChangeSet \cup
                    {[block |-> b, address |-> a, info |-> None] : a \in changed}
            /\ SyncStage' = [SyncStage EXCEPT !.Execution = b]
    /\ last' = [op |-> "execution", lo |-> SyncStage.Execution + 1,
                hi |-> SyncStage.Execution + 1, before |-> EmptyTable]
    /\ UNCHANGED <<StorageChangeSet, AccountHistory, StorageHistory, stateVars>>
    /\ UNCHANGED chainVars

\* Execution stage unwind: runs after the later stages have unwound and
\* removes the changeset rows above the unwind target.
ExecutionUnwindAccounts ==
    /\ \E unwind_to \in 0..MaxBlock :
        /\ unwind_to < SyncStage.Execution
        /\ SyncStage.IndexAccountHistory <= unwind_to
        /\ AccountChangeSet' = {r \in AccountChangeSet : r.block <= unwind_to}
        /\ SyncStage' = [SyncStage EXCEPT !.Execution = unwind_to]
        /\ last' = [op |-> "execution_unwind", lo |-> unwind_to + 1,
                    hi |-> SyncStage.Execution, before |-> EmptyTable]
    /\ UNCHANGED <<StorageChangeSet, AccountHistory, StorageHistory, stateVars>>
    /\ UNCHANGED chainVars

\* IndexAccountHistoryStage::execute over the range (checkpoint, end].
IndexAccountHistoryExecute ==
    /\ \E end \in 1..MaxBlock :
        LET start == SyncStage.IndexAccountHistory + 1
            indices == get_account_transition_ids_from_changeset(AccountChangeSet, start, end)
        IN  /\ start <= end
            /\ end <= SyncStage.Execution
            /\ AccountHistory' = insert_account_history_index(AccountHistory, indices)
            /\ SyncStage' = [SyncStage EXCEPT !.IndexAccountHistory = end]
            /\ last' = [op |-> "insert_account", lo |-> start, hi |-> end,
                        before |-> AccountHistory]
    /\ UNCHANGED <<AccountChangeSet, StorageChangeSet, StorageHistory, stateVars>>
    /\ UNCHANGED chainVars

\* IndexAccountHistoryStage::unwind over the range (unwind_to, checkpoint].
IndexAccountHistoryUnwind ==
    /\ \E unwind_to \in 0..MaxBlock :
        LET checkpoint == SyncStage.IndexAccountHistory
        IN  /\ unwind_to < checkpoint
            /\ AccountHistory' = unwind_account_history_indices(
                                    AccountHistory, AccountChangeSet, unwind_to + 1, checkpoint)
            /\ SyncStage' = [SyncStage EXCEPT !.IndexAccountHistory = unwind_to]
            /\ last' = [op |-> "unwind_account", lo |-> unwind_to + 1, hi |-> checkpoint,
                        before |-> AccountHistory]
    /\ UNCHANGED <<AccountChangeSet, StorageChangeSet, StorageHistory, stateVars>>
    /\ UNCHANGED chainVars

Init ==
    /\ AccountChangeSet = {}
    /\ StorageChangeSet = {}
    /\ AccountHistory = EmptyTable
    /\ StorageHistory = EmptyTable
    /\ SyncStage = [Execution |-> 0, IndexAccountHistory |-> 0, IndexStorageHistory |-> 0]
    /\ last = NoOp
    /\ PlainAccountState = EmptyTable
    /\ PlainStorageState = {}
    /\ BlockBodyIndices = EmptyTable
    /\ Receipts = EmptyTable
    /\ result = NoResult
    /\ junk = FALSE
    /\ Headers = EmptyTable
    /\ CanonicalHeaders = EmptyTable
    /\ HeaderNumbers = EmptyTable
    /\ HeaderTD = EmptyTable
    /\ BlockOmmers = EmptyTable
    /\ BlockWithdrawals = EmptyTable
    /\ Transactions = EmptyTable
    /\ TxSenders = EmptyTable
    /\ TxHashNumber = EmptyTable
    /\ TransactionBlock = EmptyTable
    /\ HashedAccount = EmptyTable
    /\ HashedStorage = {}
    /\ AccountsTrie = EmptyTable
    /\ stage_checkpoint = EmptyTable
    /\ PostStates = EmptyTable

Next ==
    \/ ExecutionExecuteAccounts
    \/ ExecutionUnwindAccounts
    \/ IndexAccountHistoryExecute
    \/ IndexAccountHistoryUnwind

Spec == Init /\ [][Next]_vars

\* Execution stage: writes the storage changeset rows of the next block.
ExecutionExecuteStorage ==
    /\ SyncStage.Execution < MaxStorageBlock
    /\ \E changed \in SUBSET StorageSlots :
        LET b == SyncStage.Execution + 1
        IN  /\ StorageChangeSet' = StorageChangeSet \cup
                    {[block |-> b, address |-> s[1], key |-> s[2], value |-> 0] :
                        s \in changed}
            /\ SyncStage' = [SyncStage EXCEPT !.Execution = b]
    /\ last' = [op |-> "execution", lo |-> SyncStage.Execution + 1,
                hi |-> SyncStage.Execution + 1, before |-> EmptyTable]
    /\ UNCHANGED <<AccountChangeSet, AccountHistory, StorageHistory, stateVars>>
    /\ UNCHANGED chainVars

\* Execution stage unwind: runs after the later stages have unwound and
\* removes the storage changeset rows above the unwind target.
ExecutionUnwindStorage ==
    /\ \E unwind_to \in 0..MaxStorageBlock :
        /\ unwind_to < SyncStage.Execution
        /\ SyncStage.IndexStorageHistory <= unwind_to
        /\ StorageChangeSet' = {r \in StorageChangeSet : r.block <= unwind_to}
        /\ SyncStage' = [SyncStage EXCEPT !.Execution = unwind_to]
        /\ last' = [op |-> "execution_unwind", lo |-> unwind_to + 1,
                    hi |-> SyncStage.Execution, before |-> EmptyTable]
    /\ UNCHANGED <<AccountChangeSet, AccountHistory, StorageHistory, stateVars>>
    /\ UNCHANGED chainVars

\* IndexStorageHistoryStage::execute over the range (checkpoint, end].
IndexStorageHistoryExecute ==
    /\ \E end \in 1..MaxStorageBlock :
        LET start == SyncStage.IndexStorageHistory + 1
            indices == get_storage_transition_ids_from_changeset(StorageChangeSet, start, end)
        IN  /\ start <= end
            /\ end <= SyncStage.Execution
            /\ StorageHistory' = insert_storage_history_index(StorageHistory, indices)
            /\ SyncStage' = [SyncStage EXCEPT !.IndexStorageHistory = end]
            /\ last' = [op |-> "insert_storage", lo |-> start, hi |-> end,
                        before |-> StorageHistory]
    /\ UNCHANGED <<AccountChangeSet, StorageChangeSet, AccountHistory, stateVars>>
    /\ UNCHANGED chainVars

\* IndexStorageHistoryStage::unwind over the range (unwind_to, checkpoint].
IndexStorageHistoryUnwind ==
    /\ \E unwind_to \in 0..MaxStorageBlock :
        LET checkpoint == SyncStage.IndexStorageHistory
        IN  /\ unwind_to < checkpoint
            /\ StorageHistory' = unwind_storage_history_indices(
                                    StorageHistory, StorageChangeSet, unwind_to + 1, checkpoint)
            /\ SyncStage' = [SyncStage EXCEPT !.IndexStorageHistory = unwind_to]
            /\ last' = [op |-> "unwind_storage", lo |-> unwind_to + 1, hi |-> checkpoint,
                        before |-> StorageHistory]
    /\ UNCHANGED <<AccountChangeSet, StorageChangeSet, AccountHistory, stateVars>>
    /\ UNCHANGED chainVars

NextStorage ==
    \/ ExecutionExecuteStorage
    \/ ExecutionUnwindStorage
    \/ IndexStorageHistoryExecute
    \/ IndexStorageHistoryUnwind

SpecStorage == Init /\ [][NextStorage]_vars

\* The tables get_take_block_execution_result_range works on.
Db == [Receipts |-> Receipts, StorageChangeSet |-> StorageChangeSet,
       AccountChangeSet |-> AccountChangeSet, PlainAccountState |-> PlainAccountState,
       PlainStorageState |-> PlainStorageState, BlockBodyIndices |-> BlockBodyIndices]

\* Account of an address in the plain state, None when it has no row.
PlainAccount(address) ==
    IF address \in DOMAIN PlainAccountState THEN PlainAccountState[address] ELSE None

\* The global transaction counter: the first number not yet used.
NextTxNum ==
    IF DOMAIN BlockBodyIndices = {} THEN 0
    ELSE LET b == CHOOSE x \in DOMAIN BlockBodyIndices :
                    \A y \in DOMAIN BlockBodyIndices : y <= x
         IN  BlockBodyIndices[b].first_tx_num + BlockBodyIndices[b].tx_count

\* insert_block and PostState::write_to_db for the next block: body indices,
\* receipts, prior values into the changesets, new values into the plain state
\* (a storage value of zero deletes the row).
WriteToDb ==
    /\ SyncStage.Execution < MaxReconBlock
    /\ \E changed \in SUBSET ReconAddresses, slots \in SUBSET ReconSlots, tx_count \in {0, 1} :
        \E new_account \in [changed -> Accounts \cup {None}],
           new_value \in [slots -> StorageValues] :
            LET b == SyncStage.Execution + 1
                first == NextTxNum
            IN  /\ \A a \in changed : new_account[a] # PlainAccount(a)
                /\ \A sl \in slots :
                        new_value[sl] # PlainStorageValue(PlainStorageState, sl[1], sl[2])
                /\ AccountChangeSet' = AccountChangeSet \cup
                        {[block |-> b, address |-> a, info |-> PlainAccount(a)] :
                            a \in changed}
                /\ StorageChangeSet' = StorageChangeSet \cup
                        {[block |-> b, address |-> sl[1], key |-> sl[2],
                          value |-> PlainStorageValue(PlainStorageState, sl[1], sl[2])] :
                            sl \in slots}
                /\ PlainAccountState' =
                        [a \in ((DOMAIN PlainAccountState) \cup changed) \
                                {x \in changed : new_account[x] = None} |->
                            IF a \in changed THEN new_account[a] ELSE PlainAccountState[a]]
                /\ PlainStorageState' =
                        {r \in PlainStorageState : <<r.address, r.key>> \notin slots} \cup
                        {[address |-> sl[1], key |-> sl[2], value |-> new_value[sl]] :
                            sl \in {x \in slots : new_value[x] # 0}}
                /\ BlockBodyIndices' =
                        Put(BlockBodyIndices, b, [first_tx_num |-> first, tx_count |-> tx_count])
                /\ Receipts' = IF tx_count = 1 THEN Put(Receipts, first, b) ELSE Receipts
                /\ SyncStage' = [SyncStage EXCEPT !.Execution = b]
                /\ last' = [op |-> "write_to_db", lo |-> b, hi |-> b, before |-> EmptyTable]
    /\ result' = NoResult
    /\ UNCHANGED <<AccountHistory, StorageHistory, junk>>
    /\ UNCHANGED chainVars

\* The account a changeset row's change led to, in blocks up to hi: the prior
\* recorded by the next-younger row of the same address, or the plain state
\* value when there is none.
PairedNew(db, row, hi) ==
    LET younger == {r \in db.AccountChangeSet :
                        r.address = row.address /\ row.block < r.block /\ r.block <= hi}
    IN  IF younger # {}
        THEN (CHOOSE r \in younger : \A o \in younger : r.block <= o.block).info
        ELSE IF row.address \in DOMAIN db.PlainAccountState
             THEN db.PlainAccountState[row.address] ELSE None

\* Junk data in the database: an account changeset row that does not represent
\* any change, its recorded prior being the account the change led to.
JunkAccountChangeSet ==
    /\ ~junk
    /\ \E row \in AccountChangeSet, info \in Accounts \cup {None} :
        /\ info # row.info
        /\ info = PairedNew(Db, row, SyncStage.Execution)
        /\ AccountChangeSet' = (AccountChangeSet \ {row}) \cup {[row EXCEPT !.info = info]}
    /\ junk' = TRUE
    /\ last' = [op |-> "junk", lo |-> 0, hi |-> 0, before |-> EmptyTable]
    /\ result' = NoResult
    /\ UNCHANGED <<StorageChangeSet, AccountHistory, StorageHistory, SyncStage,
                   PlainAccountState, PlainStorageState, BlockBodyIndices, Receipts>>
    /\ UNCHANGED chainVars

\* get_take_block_execution_result_range::<false> over the suffix lo..=tip.
GetBlockExecutionResultRange ==
    /\ \E lo \in 1..MaxReconBlock :
        /\ lo <= SyncStage.Execution
        /\ LET res == get_take_block_execution_result_range(FALSE, Db, lo, SyncStage.Execution)
           IN  /\ result' = [kind |-> res.kind,
                             value |-> IF res.kind = "Ok" THEN res.value ELSE <<>>]
               /\ last' = [op |-> "get_execution_result", lo |-> lo,
                           hi |-> SyncStage.Execution, before |-> Db]
    /\ UNCHANGED <<AccountChangeSet, StorageChangeSet, AccountHistory, StorageHistory,
                   SyncStage, PlainAccountState, PlainStorageState, BlockBodyIndices,
                   Receipts, junk>>
    /\ UNCHANGED chainVars

\* get_take_block_execution_result_range::<true> over the suffix lo..=tip.
TakeBlockExecutionResultRange ==
    /\ \E lo \in 1..MaxReconBlock :
        /\ lo <= SyncStage.Execution
        /\ LET res == get_take_block_execution_result_range(TRUE, Db, lo, SyncStage.Execution)
           IN  /\ result' = [kind |-> res.kind,
                             value |-> IF res.kind = "Ok" THEN res.value ELSE <<>>]
               /\ Receipts' = res.db.Receipts
               /\ StorageChangeSet' = res.db.StorageChangeSet
               /\ AccountChangeSet' = res.db.AccountChangeSet
               /\ PlainAccountState' = res.db.PlainAccountState
               /\ PlainStorageState' = res.db.PlainStorageState
               /\ last' = [op |-> "take_execution_result", lo |-> lo,
                           hi |-> SyncStage.Execution, before |-> Db]
    /\ UNCHANGED <<AccountHistory, StorageHistory, SyncStage, BlockBodyIndices, junk>>
    /\ UNCHANGED chainVars

NextRecon ==
    \/ WriteToDb
    \/ JunkAccountChangeSet
    \/ GetBlockExecutionResultRange
    \/ TakeBlockExecutionResultRange

SpecRecon == Init /\ [][NextRecon]_vars

----------------------------------------------------------------------------
(* The chain: append_blocks_with_post_state and take_block_and_execution_range *)

\* All tables behind the provider's transaction.
Tables ==
    [Headers |-> Headers, CanonicalHeaders |-> CanonicalHeaders,
     HeaderNumbers |-> HeaderNumbers, HeaderTD |-> HeaderTD, BlockOmmers |-> BlockOmmers,
     BlockWithdrawals |-> BlockWithdrawals, BlockBodyIndices |-> BlockBodyIndices,
     Transactions |-> Transactions, TxSenders |-> TxSenders, TxHashNumber |-> TxHashNumber,
     TransactionBlock |-> TransactionBlock, Receipts |-> Receipts,
     AccountChangeSet |-> AccountChangeSet, StorageChangeSet |-> StorageChangeSet,
     PlainAccountState |-> PlainAccountState, PlainStorageState |-> PlainStorageState,
     HashedAccount |-> HashedAccount, HashedStorage |-> HashedStorage,
     AccountsTrie |-> AccountsTrie, AccountHistory |-> AccountHistory,
     StorageHistory |-> StorageHistory, SyncStage |-> SyncStage,
     stage_checkpoint |-> stage_checkpoint]

\* commit(): the tables of the transaction become the tables of the database.
Commit(db) ==
    /\ Headers' = db.Headers
    /\ CanonicalHeaders' = db.CanonicalHeaders
    /\ HeaderNumbers' = db.HeaderNumbers
    /\ HeaderTD' = db.HeaderTD
    /\ BlockOmmers' = db.BlockOmmers
    /\ BlockWithdrawals' = db.BlockWithdrawals
    /\ BlockBodyIndices' = db.BlockBodyIndices
    /\ Transactions' = db.Transactions
    /\ TxSenders' = db.TxSenders
    /\ TxHashNumber' = db.TxHashNumber
    /\ TransactionBlock' = db.TransactionBlock
    /\ Receipts' = db.Receipts
    /\ AccountChangeSet' = db.AccountChangeSet
    /\ StorageChangeSet' = db.StorageChangeSet
    /\ PlainAccountState' = db.PlainAccountState
    /\ PlainStorageState' = db.PlainStorageState
    /\ HashedAccount' = db.HashedAccount
    /\ HashedStorage' = db.HashedStorage
    /\ AccountsTrie' = db.AccountsTrie
    /\ AccountHistory' = db.AccountHistory
    /\ StorageHistory' = db.StorageHistory
    /\ SyncStage' = db.SyncStage
    /\ stage_checkpoint' = db.stage_checkpoint

\* The keccak-keyed projection of the plain state.
HashedAccounts(plain_accounts) ==
    [h \in {keccak256(a) : a \in DOMAIN plain_accounts} |->
        plain_accounts[CHOOSE a \in DOMAIN plain_accounts : keccak256(a) = h]]

HashedStorages(plain_storage) ==
    {[address |-> keccak256(r.address), key |-> keccak256(r.key), value |-> r.value] :
        r \in plain_storage}

\* The highest block of the canonical chain.
Tip == CHOOSE b \in DOMAIN Headers : \A o \in DOMAIN Headers : o <= b

\* The account values written in the chain model.
ChainAccounts == {"account1"}

\* What a block makes of the state: the account of every address and the
\* value of every slot after it, and its number of transactions.
BlockChoices ==
    [account : [ReconAddresses -> ChainAccounts \cup {None}],
     value : [ReconSlots -> StorageValues],
     tx_count : {0, 1}]

\* The PostState execution produces for a block on top of the plain state of
\* db: one change per address and slot whose value differs after the block.
PostStateOf(db, number, choice) ==
    LET old_account(a) == IF a \in DOMAIN db.PlainAccountState
                          THEN db.PlainAccountState[a] ELSE None
        old_value(sl) == PlainStorageValue(db.PlainStorageState, sl[1], sl[2])
    IN  [accounts |->
            {[kind |-> IF old_account(a) = None THEN "create"
                       ELSE IF choice.account[a] = None THEN "destroy" ELSE "change",
              address |-> a, old |-> old_account(a), new |-> choice.account[a]] :
                a \in {x \in ReconAddresses : choice.account[x] # old_account(x)}},
         storage |->
            {[address |-> sl[1], key |-> sl[2], old |-> old_value(sl),
              new |-> choice.value[sl]] :
                sl \in {x \in ReconSlots : choice.value[x] # old_value(x)}},
         receipts |-> IF choice.tx_count = 1 THEN <<number>> ELSE <<>>]

RECURSIVE BuildBlocks(_, _, _, _, _)
\* The blocks execution produces for a list of choices, each with its
\* PostState and, in its header, the root of the state after it.
BuildBlocks(db, number, choices, blocks, states) ==
    IF choices = <<>> THEN [blocks |-> blocks, states |-> states]
    ELSE Bind(PostStateOf(db, number, Head(choices)),
         LAMBDA post_state :
         Bind(write_to_db(insert_canonical_block(db,
                    [number |-> number, tx_count |-> Head(choices).tx_count,
                     state_root |-> BadStateRoot]), number, post_state),
         LAMBDA written :
         BuildBlocks(written, number + 1, Tail(choices),
            Append(blocks, [number |-> number, tx_count |-> Head(choices).tx_count,
                            state_root |-> <<HashedAccounts(written.PlainAccountState),
                                             HashedStorages(written.PlainStorageState)>>]),
            Append(states, post_state))))

\* The database after init_genesis: block 0, no state, every stage at 0.
InitChain ==
    /\ AccountChangeSet = {}
    /\ StorageChangeSet = {}
    /\ AccountHistory = EmptyTable
    /\ StorageHistory = EmptyTable
    /\ SyncStage = [Execution |-> 0, IndexAccountHistory |-> 0, IndexStorageHistory |-> 0]
    /\ last = NoOp
    /\ PlainAccountState = EmptyTable
    /\ PlainStorageState = {}
    /\ BlockBodyIndices = (0 :> [first_tx_num |-> 0, tx_count |-> 0])
    /\ Receipts = EmptyTable
    /\ result = NoResult
    /\ junk = FALSE
    /\ Headers = (0 :> [number |-> 0, timestamp |-> 0,
                        state_root |-> incremental_root_with_updates(EmptyTable, {})])
    /\ CanonicalHeaders = (0 :> BlockHash(0))
    /\ HeaderNumbers = (BlockHash(0) :> 0)
    /\ HeaderTD = (0 :> 0)
    /\ BlockOmmers = EmptyTable
    /\ BlockWithdrawals = EmptyTable
    /\ Transactions = EmptyTable
    /\ TxSenders = EmptyTable
    /\ TxHashNumber = EmptyTable
    /\ TransactionBlock = EmptyTable
    /\ HashedAccount = EmptyTable
    /\ HashedStorage = {}
    /\ AccountsTrie = incremental_root_with_updates(EmptyTable, {})
    /\ stage_checkpoint = [Execution |-> None, IndexAccountHistory |-> None,
                           IndexStorageHistory |-> None]
    /\ PostStates = EmptyTable

\* append_blocks_with_post_state for the next blocks of the chain.  The last
\* header carries the true state root or a wrong one.  The transaction is
\* committed when the call returns Ok and dropped otherwise.
AppendBlocksWithPostState ==
    \E n \in BatchSizes, honest \in BOOLEAN :
        /\ Tip + n <= MaxChainBlock
        /\ \E choices \in [1..n -> BlockChoices] :
            \E built \in {BuildBlocks(Tables, Tip + 1, choices, <<>>, <<>>)} :
            \E res \in {append_blocks_with_post_state(Tables,
                            IF honest THEN built.blocks
                            ELSE [built.blocks EXCEPT ![n].state_root = BadStateRoot],
                            built.states)} :
                /\ Commit(IF res.kind = "Ok" THEN res.db ELSE Tables)
                /\ PostStates' = IF res.kind = "Ok"
                                 THEN [b \in (DOMAIN PostStates) \cup (Tip + 1)..(Tip + n) |->
                                        IF b > Tip THEN built.states[b - Tip]
                                        ELSE PostStates[b]]
                                 ELSE PostStates
                /\ result' = [kind |-> res.kind, error |-> res.error, value |-> <<>>]
                /\ last' = [op |-> "append_blocks", lo |-> Tip + 1, hi |-> Tip + n,
                            before |-> Tables, after |-> res.db]
        /\ UNCHANGED junk

\* take_block_and_execution_range over the suffix lo..=tip.
TakeBlockAndExecutionRange ==
    \E lo \in 1..MaxChainBlock :
        /\ lo <= Tip
        /\ \E res \in {get_take_block_and_execution_range(TRUE, Tables, lo, Tip)} :
               /\ Commit(IF res.kind = "Ok" THEN res.db ELSE Tables)
               /\ PostStates' = IF res.kind = "Ok"
                                THEN [b \in {x \in DOMAIN PostStates : x < lo} |->
                                        PostStates[b]]
                                ELSE PostStates
               /\ junk' = IF res.kind = "Ok" THEN FALSE ELSE junk
               /\ result' = [kind |-> res.kind, error |-> res.error, value |-> res.value]
               /\ last' = [op |-> "take_block_and_execution_range", lo |-> lo, hi |-> Tip,
                           before |-> Tables, after |-> res.db]

\* get_block_and_execution_range over the suffix lo..=tip.
GetBlockAndExecutionRange ==
    \E lo \in 1..MaxChainBlock :
        /\ lo <= Tip
        /\ \E res \in {get_take_block_and_execution_range(FALSE, Tables, lo, Tip)} :
               /\ Commit(IF res.kind = "Ok" THEN res.db ELSE Tables)
               /\ result' = [kind |-> res.kind, error |-> res.error, value |-> res.value]
               /\ last' = [op |-> "get_block_and_execution_range", lo |-> lo, hi |-> Tip,
                           before |-> Tables, after |-> res.db]
        /\ UNCHANGED <<PostStates, junk>>

\* save_stage_checkpoint by a stage that lags behind the tip: its row gets
\* the block number the stage has reached and stage-specific progress.
SaveStageCheckpoint ==
    /\ Tip > 0
    /\ stage_checkpoint.IndexStorageHistory = None
    /\ \E block_number \in 0..(Tip - 1) :
            SyncStage' = [SyncStage EXCEPT !.IndexStorageHistory = block_number]
    /\ stage_checkpoint' = [stage_checkpoint EXCEPT !.IndexStorageHistory = "Progress"]
    /\ last' = [op |-> "save_stage_checkpoint", lo |-> 0, hi |-> 0, before |-> EmptyTable]
    /\ result' = NoResult
    /\ UNCHANGED <<AccountChangeSet, StorageChangeSet, AccountHistory, StorageHistory,
                   PlainAccountState, PlainStorageState, BlockBodyIndices,
                   Receipts, junk, blockVars, HashedAccount, HashedStorage, AccountsTrie,
                   PostStates>>

NextChain ==
    \/ AppendBlocksWithPostState
    \/ TakeBlockAndExecutionRange
    \/ GetBlockAndExecutionRange
    \/ JunkAccountChangeSet
    \/ SaveStageCheckpoint

SpecChain == InitChain /\ [][NextChain]_vars

----------------------------------------------------------------------------
(* Storage hashing on its own *)

\* The storage values and the blocks of the storage hashing model.
HashingValues == {0, 1, 2}
HashingBlocks == {1, 2}

\* Every table but the storage tables stays empty in the storage hashing model.
otherVars == <<AccountChangeSet, AccountHistory, StorageHistory, PlainAccountState,
               BlockBodyIndices, Receipts, junk, blockVars, HashedAccount, AccountsTrie,
               stage_checkpoint, PostStates>>

InitHashing ==
    /\ AccountChangeSet = {}
    /\ StorageChangeSet = {}
    /\ AccountHistory = EmptyTable
    /\ StorageHistory = EmptyTable
    /\ SyncStage = [Execution |-> 0, StorageHashing |-> 0]
    /\ last = NoOp
    /\ PlainAccountState = EmptyTable
    /\ PlainStorageState = {}
    /\ BlockBodyIndices = EmptyTable
    /\ Receipts = EmptyTable
    /\ result = NoResult
    /\ junk = FALSE
    /\ Headers = EmptyTable
    /\ CanonicalHeaders = EmptyTable
    /\ HeaderNumbers = EmptyTable
    /\ HeaderTD = EmptyTable
    /\ BlockOmmers = EmptyTable
    /\ BlockWithdrawals = EmptyTable
    /\ Transactions = EmptyTable
    /\ TxSenders = EmptyTable
    /\ TxHashNumber = EmptyTable
    /\ TransactionBlock = EmptyTable
    /\ HashedAccount = EmptyTable
    /\ HashedStorage = {}
    /\ AccountsTrie = EmptyTable
    /\ stage_checkpoint = EmptyTable
    /\ PostStates = EmptyTable

\* Execution of the next block writes the storage it changes: the priors into
\* StorageChangeSet, the new values into PlainStorageState.
WriteStorageBlock ==
    \E new_value \in [StorageSlots -> HashingValues] :
        LET number == SyncStage.Execution + 1
            changes == {[address |-> sl[1], key |-> sl[2],
                         old |-> PlainStorageValue(PlainStorageState, sl[1], sl[2]),
                         new |-> new_value[sl]] :
                            sl \in {x \in StorageSlots :
                                        new_value[x] # PlainStorageValue(PlainStorageState,
                                                                         x[1], x[2])}}
        IN  /\ number \in HashingBlocks
            /\ changes # {}
            /\ StorageChangeSet' = StorageChangeSet \cup
                    {[block |-> number, address |-> c.address, key |-> c.key,
                      value |-> c.old] : c \in changes}
            /\ PlainStorageState' = WriteStorage(SetToSeq(changes), PlainStorageState)
            /\ SyncStage' = [SyncStage EXCEPT !.Execution = number]
            /\ last' = [op |-> "write_storage", lo |-> number, hi |-> number,
                        before |-> EmptyTable]
            /\ result' = NoResult
            /\ UNCHANGED <<HashedStorage, otherVars>>

\* The storage hashing of insert_hashes over the blocks not hashed yet.
InsertStorageForHashing ==
    /\ SyncStage.StorageHashing < SyncStage.Execution
    /\ LET lo == SyncStage.StorageHashing + 1
           hi == SyncStage.Execution
           lists == get_addresses_and_keys_of_changed_storages(StorageChangeSet, lo, hi)
           storages == get_plainstate_storages(PlainStorageState, lists)
       IN  /\ HashedStorage' = insert_storage_for_hashing(HashedStorage, storages)
           /\ SyncStage' = [SyncStage EXCEPT !.StorageHashing = hi]
           /\ last' = [op |-> "insert_storage_for_hashing", lo |-> lo, hi |-> hi,
                       before |-> [HashedStorage |-> HashedStorage,
                                   PlainStorageState |-> PlainStorageState,
                                   StorageChangeSet |-> StorageChangeSet]]
    /\ result' = NoResult
    /\ UNCHANGED <<StorageChangeSet, PlainStorageState, otherVars>>

\* The storage part of a take over lo..=tip: unwind_storage_hashing, then the
\* write-back of the reconstructed priors to PlainStorageState.
UnwindStorageHashing ==
    /\ SyncStage.StorageHashing = SyncStage.Execution
    /\ \E lo \in HashingBlocks :
        /\ lo <= SyncStage.Execution
        /\ LET hi == SyncStage.Execution
               rows == WalkRange(StorageChangeSet, lo, hi)
               storages == StorageChangesLoop(Reverse(StorageRows(rows)), EmptyTable,
                                              EmptyTable, PlainStorageState)
               reverted == RevertLoop(SortedSeq(DOMAIN storages.local), storages.local,
                                      PlainAccountState, PlainStorageState)
           IN  /\ HashedStorage' = unwind_storage_hashing(HashedStorage, StorageChangeSet,
                                                          lo, hi)
               /\ PlainStorageState' = reverted.storage
               /\ StorageChangeSet' = StorageChangeSet \ rows
               /\ SyncStage' = [Execution |-> lo - 1, StorageHashing |-> lo - 1]
               /\ last' = [op |-> "unwind_storage_hashing", lo |-> lo, hi |-> hi,
                           before |-> [HashedStorage |-> HashedStorage,
                                       PlainStorageState |-> PlainStorageState,
                                       StorageChangeSet |-> StorageChangeSet]]
    /\ result' = NoResult
    /\ UNCHANGED otherVars

NextHashing ==
    \/ WriteStorageBlock
    \/ InsertStorageForHashing
    \/ UnwindStorageHashing

SpecHashing == InitHashing /\ [][NextHashing]_vars

----------------------------------------------------------------------------
(* take_block_and_execution_range, statement by statement *)

\* Mutant of TakeSteps: both hashing unwinds come before both history-index
\* unwinds.
TakeStepsHashingFirst ==
    <<"unwind_account_hashing", "unwind_storage_hashing",
      "unwind_account_history_indices", "unwind_storage_history_indices",
      "incremental_root_with_updates", "get_take_block_range",
      "get_take_block_execution_result_range", "take_block_body_indices",
      "update_pipeline_stages">>

\* Mutant of TakeSteps: the changesets are taken before the hashing and the
\* history-index unwinds run.
TakeStepsResultsFirst ==
    <<"get_take_block_execution_result_range",
      "unwind_account_hashing", "unwind_account_history_indices",
      "unwind_storage_hashing", "unwind_storage_history_indices",
      "incremental_root_with_updates", "get_take_block_range",
      "take_block_body_indices", "update_pipeline_stages">>

\* The statements of get_take_block_and_execution_range::<true> that write to
\* the transaction, in the order the function runs them.
TakeSteps ==
    <<"unwind_account_hashing", "unwind_account_history_indices",
      "unwind_storage_hashing", "unwind_storage_history_indices",
      "incremental_root_with_updates", "get_take_block_range",
      "get_take_block_execution_result_range", "take_block_body_indices",
      "update_pipeline_stages">>

\* The call is at the statement of this name.
TakeAt(name) == last.op = "taking" /\ TakeSteps[last.pc] = name

\* The statement has run: the call moves on to the next one.
TakeAdvance(name) ==
    /\ last' = [last EXCEPT !.pc = @ + 1, !.steps = Append(@, name)]
    /\ UNCHANGED <<PostStates, junk, result>>

\* A statement returns an error with `?`: the call ends and the transaction
\* is dropped.
TakeFail(name, kind, error) ==
    /\ Commit(last.before)
    /\ last' = [last EXCEPT !.op = "take_failed", !.steps = Append(@, name)]
    /\ result' = [kind |-> kind, error |-> error, value |-> <<>>]
    /\ UNCHANGED <<PostStates, junk>>

\* take_block_and_execution_range(lo..=tip) is called on a new transaction.
TakeBegin ==
    /\ last.op # "taking"
    /\ \E lo \in 1..MaxChainBlock :
        /\ lo <= Tip
        /\ last' = [op |-> "taking", pc |-> 1, lo |-> lo, hi |-> Tip, before |-> Tables,
                    steps |-> <<>>, blocks |-> <<>>, execution_res |-> <<>>]
    /\ result' = NoResult
    /\ UNCHANGED <<AccountChangeSet, StorageChangeSet, AccountHistory, StorageHistory,
                   SyncStage, PlainAccountState, PlainStorageState, BlockBodyIndices,
                   Receipts, junk, chainVars>>

\* self.unwind_account_hashing(range.clone())?
TakeUnwindAccountHashing ==
    /\ TakeAt("unwind_account_hashing")
    /\ Commit([Tables EXCEPT !.HashedAccount =
                unwind_account_hashing(@, AccountChangeSet, last.lo, last.hi)])
    /\ TakeAdvance("unwind_account_hashing")

\* self.unwind_account_history_indices(range.clone())?
TakeUnwindAccountHistoryIndices ==
    /\ TakeAt("unwind_account_history_indices")
    /\ Commit([Tables EXCEPT !.AccountHistory =
                unwind_account_history_indices(@, AccountChangeSet, last.lo, last.hi)])
    /\ TakeAdvance("unwind_account_history_indices")

\* self.unwind_storage_hashing(storage_range.clone())?
TakeUnwindStorageHashing ==
    /\ TakeAt("unwind_storage_hashing")
    /\ Commit([Tables EXCEPT !.HashedStorage =
                unwind_storage_hashing(@, StorageChangeSet, last.lo, last.hi)])
    /\ TakeAdvance("unwind_storage_hashing")

\* self.unwind_storage_history_indices(storage_range)?
TakeUnwindStorageHistoryIndices ==
    /\ TakeAt("unwind_storage_history_indices")
    /\ Commit([Tables EXCEPT !.StorageHistory =
                unwind_storage_history_indices(@, StorageChangeSet, last.lo, last.hi)])
    /\ TakeAdvance("unwind_storage_history_indices")

\* "merkle tree": the root of the unwound hashed state is compared with the
\* state root of the parent header, and the trie updates are flushed.
TakeStateRoot ==
    /\ TakeAt("incremental_root_with_updates")
    /\ LET new_state_root == incremental_root_with_updates(HashedAccount, HashedStorage)
           parent_number == SatSub(last.lo, 1)
       IN  IF parent_number \notin DOMAIN Headers
                \/ (/\ new_state_root # Headers[parent_number].state_root
                    /\ parent_number \notin DOMAIN CanonicalHeaders)
           THEN TakeFail("incremental_root_with_updates", "HeaderNotFound", parent_number)
           ELSE IF new_state_root # Headers[parent_number].state_root
           THEN TakeFail("incremental_root_with_updates", "UnwindStateRootMismatch",
                    [got |-> new_state_root,
                     expected |-> Headers[parent_number].state_root,
                     block_number |-> parent_number,
                     block_hash |-> CanonicalHeaders[parent_number]])
           ELSE /\ Commit([Tables EXCEPT !.AccountsTrie = new_state_root])
                /\ TakeAdvance("incremental_root_with_updates")

\* let blocks = self.get_take_block_range::<TAKE>(chain_spec, range.clone())?
TakeBlockRange ==
    /\ TakeAt("get_take_block_range")
    /\ \E blocks \in {get_take_block_range(TRUE, Tables, last.lo, last.hi)} :
        IF blocks.kind # "Ok" THEN TakeFail("get_take_block_range", blocks.kind, <<>>)
        ELSE /\ Commit(blocks.db)
             /\ last' = [last EXCEPT !.pc = @ + 1, !.blocks = blocks.blocks,
                                     !.steps = Append(@, "get_take_block_range")]
             /\ UNCHANGED <<PostStates, junk, result>>

\* let execution_res = self.get_take_block_execution_result_range::<TAKE>(range.clone())?
TakeExecutionResultRange ==
    /\ TakeAt("get_take_block_execution_result_range")
    /\ \E execution_res \in
            {get_take_block_execution_result_range(TRUE, Tables, last.lo, last.hi)} :
        IF execution_res.kind # "Ok"
        THEN TakeFail("get_take_block_execution_result_range", execution_res.kind, <<>>)
        ELSE /\ Commit(execution_res.db)
             /\ last' = [last EXCEPT !.pc = @ + 1, !.execution_res = execution_res.value,
                            !.steps = Append(@, "get_take_block_execution_result_range")]
             /\ UNCHANGED <<PostStates, junk, result>>

\* "rm block bodies": self.get_or_take::<tables::BlockBodyIndices, TAKE>(range)?
TakeBlockBodyIndices ==
    /\ TakeAt("take_block_body_indices")
    /\ Commit([Tables EXCEPT !.BlockBodyIndices =
                get_or_take(TRUE, @, last.lo, last.hi).tbl])
    /\ TakeAdvance("take_block_body_indices")

\* "Update pipeline progress", and the call returns the blocks with their
\* execution results; the transaction is committed.
TakeUpdatePipelineStages ==
    /\ TakeAt("update_pipeline_stages")
    /\ Commit(IF last.blocks # <<>>
              THEN update_pipeline_stages(Tables, SatSub(last.blocks[1].number, 1), TRUE)
              ELSE Tables)
    /\ last' = [last EXCEPT !.op = "taken", !.steps = Append(@, "update_pipeline_stages")]
    /\ result' = [kind |-> "Ok", error |-> <<>>,
                  value |-> [i \in 1..Min({Len(last.blocks), Len(last.execution_res)}) |->
                                [block |-> last.blocks[i],
                                 state |-> last.execution_res[i].state]]]
    /\ PostStates' = [b \in {x \in DOMAIN PostStates : x < last.lo} |-> PostStates[b]]
    /\ junk' = FALSE

\* Blocks are appended and changesets damaged between calls only.
TakeAppend == last.op # "taking" /\ AppendBlocksWithPostState

TakeJunk == last.op # "taking" /\ JunkAccountChangeSet

NextTake ==
    \/ TakeAppend
    \/ TakeJunk
    \/ TakeBegin
    \/ TakeUnwindAccountHashing
    \/ TakeUnwindAccountHistoryIndices
    \/ TakeUnwindStorageHashing
    \/ TakeUnwindStorageHistoryIndices
    \/ TakeStateRoot
    \/ TakeBlockRange
    \/ TakeExecutionResultRange
    \/ TakeBlockBodyIndices
    \/ TakeUpdatePipelineStages

SpecTake == InitChain /\ [][NextTake]_vars

----------------------------------------------------------------------------
(* Reading blocks, withdrawals and total difficulty; unwinding a table *)

\* Highest block number of the headers in the read model.
MaxReadBlock == 3

\* ChainSpec: the Paris (merge) block and the total difficulty it ended with.
ParisBlock == 1
FinalParisDifficulty == 9

\* Option::Some(x) and Option::None of the read operations: a list of at most
\* one value.
Some(x) == <<x>>
NoValue == <<>>

\* BlockHashOrNumber
BlockIds ==
    [kind : {"Number"}, value : 0..(MaxReadBlock + 1)]
        \cup [kind : {"Hash"}, value : {BlockHash(n) : n \in 0..(MaxReadBlock + 1)}]

\* chain_spec.is_shanghai_activated_at_timestamp(timestamp), and
\* chain_spec.fork(Hardfork::Shanghai).active_at_timestamp(timestamp)
is_shanghai_activated_at_timestamp(timestamp) == timestamp >= ShanghaiTimestamp

\* chain_spec.final_paris_difficulty(number)
final_paris_difficulty(number) ==
    IF number > ParisBlock THEN Some(FinalParisDifficulty) ELSE NoValue

\* convert_hash_or_number(id): a number stands for itself, a hash is looked
\* up in HeaderNumbers.
convert_hash_or_number(db, id) ==
    IF id.kind = "Number" THEN Some(id.value)
    ELSE IF id.value \in DOMAIN db.HeaderNumbers THEN Some(db.HeaderNumbers[id.value])
    ELSE NoValue

\* Mutant of withdrawals_by_block: what BlockWithdrawals stores, whatever the
\* timestamp.
withdrawals_by_block_stored_only(db, id, timestamp) ==
    LET number == convert_hash_or_number(db, id)
    IN  IF number # NoValue /\ number[1] \in DOMAIN db.BlockWithdrawals
        THEN Some(db.BlockWithdrawals[number[1]])
        ELSE NoValue

\* withdrawals_by_block(id, timestamp)
withdrawals_by_block(db, id, timestamp) ==
    IF is_shanghai_activated_at_timestamp(timestamp)
    THEN LET number == convert_hash_or_number(db, id)
         IN  IF number # NoValue
             THEN IF number[1] \in DOMAIN db.BlockWithdrawals
                  THEN Some(db.BlockWithdrawals[number[1]])
                  ELSE Some(<<>>)
             ELSE NoValue
    ELSE NoValue

\* Mutant of header_td_by_number: the stored total difficulty comes first, the
\* final Paris difficulty only when no row is stored.
header_td_by_number_stored_first(db, number) ==
    IF number \in DOMAIN db.HeaderTD THEN Some(db.HeaderTD[number])
    ELSE final_paris_difficulty(number)

\* header_td_by_number(number)
header_td_by_number(db, number) ==
    IF final_paris_difficulty(number) # NoValue THEN final_paris_difficulty(number)
    ELSE IF number \in DOMAIN db.HeaderTD THEN Some(db.HeaderTD[number])
    ELSE NoValue

\* ommers(id) for a block number
ommers(db, number) ==
    IF number \in DOMAIN db.BlockOmmers THEN Some(db.BlockOmmers[number]) ELSE NoValue

\* transactions_by_tx_range and senders_by_tx_range: the values of the rows
\* whose key is in the range, in key order.
walk_range(tbl, tx_range) ==
    LET order == SortedSeq({k \in DOMAIN tbl : k \in tx_range})
    IN  [i \in 1..Len(order) |-> tbl[order[i]]]

\* block_with_senders(block_number)
block_with_senders(db, block_number) ==
    IF block_number \notin DOMAIN db.Headers
    THEN [kind |-> "HeaderNotFound", error |-> block_number, value |-> NoValue]
    ELSE
    LET header == db.Headers[block_number]
        block_ommers == IF ommers(db, block_number) = NoValue THEN <<>>
                        ELSE ommers(db, block_number)[1]
        withdrawals == withdrawals_by_block(db, [kind |-> "Number", value |-> block_number],
                                            header.timestamp)
    IN  IF block_number \notin DOMAIN db.BlockBodyIndices
        THEN [kind |-> "BlockBodyIndicesNotFound", error |-> block_number,
              value |-> NoValue]
        ELSE
        LET tx_range == tx_num_range(db.BlockBodyIndices[block_number])
            transactions == IF tx_range = {} THEN <<>>
                            ELSE walk_range(db.Transactions, tx_range)
            senders == IF tx_range = {} THEN <<>> ELSE walk_range(db.TxSenders, tx_range)
        IN  [kind |-> "Ok", error |-> <<>>,
             value |-> Some([header |-> header,
                             body |-> [i \in 1..Len(transactions) |-> [hash |-> 0]],
                             ommers |-> block_ommers,
                             withdrawals |-> withdrawals,
                             senders |-> senders])]

\* A database the pipeline has left: headers of blocks 0..headers, total
\* difficulty of blocks 0..td, bodies of blocks 0..bodies.  A block's
\* timestamp is its number; odd blocks have one transaction and ommers; some
\* blocks from Shanghai on have withdrawals, the others have an empty list,
\* which is not stored.
InitRead ==
    /\ AccountChangeSet = {}
    /\ StorageChangeSet = {}
    /\ AccountHistory = EmptyTable
    /\ StorageHistory = EmptyTable
    /\ SyncStage = [Headers |-> 0, TotalDifficulty |-> 0, Bodies |-> 0]
    /\ last = NoOp
    /\ PlainAccountState = EmptyTable
    /\ PlainStorageState = {}
    /\ Receipts = EmptyTable
    /\ result = NoResult
    /\ junk = FALSE
    /\ HashedAccount = EmptyTable
    /\ HashedStorage = {}
    /\ AccountsTrie = incremental_root_with_updates(EmptyTable, {})
    /\ stage_checkpoint = [Headers |-> None, TotalDifficulty |-> None, Bodies |-> None]
    /\ PostStates = EmptyTable
    /\ \E headers \in 0..MaxReadBlock :
        \E td \in 0..headers, bodies \in 0..headers :
        \E with_withdrawals \in
                SUBSET {b \in 0..bodies : is_shanghai_activated_at_timestamp(b)} :
            /\ Headers = [b \in 0..headers |->
                            [number |-> b, timestamp |-> b, state_root |-> BadStateRoot]]
            /\ CanonicalHeaders = [b \in 0..headers |-> BlockHash(b)]
            /\ HeaderNumbers = [h \in {BlockHash(b) : b \in 0..headers} |-> h - 10]
            /\ HeaderTD = [b \in 0..td |-> b]
            /\ BlockOmmers = [b \in {x \in 0..bodies : x % 2 = 1} |-> <<b>>]
            /\ BlockWithdrawals = [b \in with_withdrawals |-> <<b>>]
            /\ BlockBodyIndices = [b \in 0..bodies |->
                                    [first_tx_num |-> b \div 2, tx_count |-> b % 2]]
            /\ Transactions = [n \in {b \div 2 : b \in {x \in 0..bodies : x % 2 = 1}} |->
                                [hash |-> TxHash(n)]]
            /\ TxSenders = [n \in DOMAIN Transactions |-> 1]
            /\ TxHashNumber = [h \in {TxHash(n) : n \in DOMAIN Transactions} |-> h - 20]
            /\ TransactionBlock = [n \in DOMAIN Transactions |-> 2 * n + 1]

RECURSIVE UnwindTableLoop(_, _, _, _, _, _)
\* The loop of unwind_table over the entries the reverse walker yields, last
\* key first.  A read that fails yields Some(Err(..)), which ends the
\* `while let Some(Ok(..))` loop like the end of the table does; a
\* delete_current that fails is returned with `?`.
UnwindTableLoop(tbl, entries, key, read_fails, delete_fails, deleted) ==
    IF entries = <<>> THEN [kind |-> "Ok", error |-> <<>>, deleted |-> deleted, tbl |-> tbl]
    ELSE IF Head(entries) \in read_fails
    THEN [kind |-> "Ok", error |-> <<>>, deleted |-> deleted, tbl |-> tbl]
    ELSE IF Head(entries) <= key
    THEN [kind |-> "Ok", error |-> <<>>, deleted |-> deleted, tbl |-> tbl]
    ELSE IF Head(entries) \in delete_fails
    THEN [kind |-> "DatabaseError", error |-> Head(entries), deleted |-> deleted,
          tbl |-> tbl]
    ELSE UnwindTableLoop(Delete(tbl, Head(entries)), Tail(entries), key, read_fails,
                         delete_fails, deleted + 1)

\* unwind_table::<T, _>(key, selector) with the selector of
\* unwind_table_by_num, on a table whose reads fail for the keys of
\* read_fails and whose deletes fail for the keys of delete_fails.
unwind_table(tbl, key, read_fails, delete_fails) ==
    UnwindTableLoop(tbl, Reverse(SortedSeq(DOMAIN tbl)), key, read_fails, delete_fails, 0)

\* unwind_table_by_num::<T>(num)
unwind_table_by_num(tbl, num, read_fails, delete_fails) ==
    unwind_table(tbl, num, read_fails, delete_fails)

\* The tables are left as they are by a read.
ReadOnly ==
    UNCHANGED <<AccountChangeSet, StorageChangeSet, AccountHistory, StorageHistory,
                SyncStage, PlainAccountState, PlainStorageState, BlockBodyIndices,
                Receipts, junk, chainVars>>

\* withdrawals_by_block(id, timestamp)
WithdrawalsByBlock ==
    \E id \in BlockIds, timestamp \in 0..MaxReadBlock :
        /\ result' = [kind |-> "Ok", error |-> <<>>,
                      value |-> withdrawals_by_block(Tables, id, timestamp)]
        /\ last' = [op |-> "withdrawals_by_block", id |-> id, timestamp |-> timestamp]
        /\ ReadOnly

\* header_td_by_number(number)
HeaderTdByNumber ==
    \E number \in 0..(MaxReadBlock + 1) :
        /\ result' = [kind |-> "Ok", error |-> <<>>,
                      value |-> header_td_by_number(Tables, number)]
        /\ last' = [op |-> "header_td_by_number", number |-> number]
        /\ ReadOnly

\* block_with_senders(block_number)
BlockWithSenders ==
    \E block_number \in 0..(MaxReadBlock + 1) :
        /\ result' = block_with_senders(Tables, block_number)
        /\ last' = [op |-> "block_with_senders", number |-> block_number]
        /\ ReadOnly

\* get_take_block_range::<false>(lo..=hi)
GetBlockRange ==
    \E lo \in 0..MaxReadBlock, hi \in 0..MaxReadBlock :
        /\ lo <= hi
        /\ \E res \in {get_take_block_range(FALSE, Tables, lo, hi)} :
            result' = [kind |-> res.kind, error |-> <<>>, value |-> res.blocks]
        /\ last' = [op |-> "get_block_range", lo |-> lo, hi |-> hi]
        /\ ReadOnly

\* unwind_table_by_num::<tables::HeaderTD>(num), while at most one entry
\* cannot be read and at most one cannot be deleted.  The transaction is
\* committed when the call returns Ok and dropped otherwise.
UnwindTableByNum ==
    \E num \in 0..MaxReadBlock :
    \E read_fails \in {{}} \cup {{k} : k \in DOMAIN HeaderTD},
       delete_fails \in {{}} \cup {{k} : k \in DOMAIN HeaderTD} :
    \E res \in {unwind_table_by_num(HeaderTD, num, read_fails, delete_fails)} :
        /\ HeaderTD' = IF res.kind = "Ok" THEN res.tbl ELSE HeaderTD
        /\ result' = [kind |-> res.kind, error |-> res.error, value |-> res.deleted]
        /\ last' = [op |-> "unwind_table_by_num", num |-> num, read_fails |-> read_fails,
                    delete_fails |-> delete_fails, before |-> HeaderTD]
        /\ UNCHANGED <<AccountChangeSet, StorageChangeSet, AccountHistory, StorageHistory,
                       SyncStage, PlainAccountState, PlainStorageState, BlockBodyIndices,
                       Receipts, junk, Headers, CanonicalHeaders, HeaderNumbers,
                       BlockOmmers, BlockWithdrawals, Transactions, TxSenders,
                       TxHashNumber, TransactionBlock, HashedAccount, HashedStorage,
                       AccountsTrie, stage_checkpoint, PostStates>>

NextRead ==
    \/ WithdrawalsByBlock
    \/ HeaderTdByNumber
    \/ BlockWithSenders
    \/ GetBlockRange
    \/ UnwindTableByNum

SpecRead == InitRead /\ [][NextRead]_vars

----------------------------------------------------------------------------
(* Looking up transactions by hash and by number *)

\* Highest block number of the databases of the transaction model.
MaxTxBlock == 3

\* The numbers of transactions a block of the transaction model has.
TxCounts == {0, 1, 2}

\* Mutant of Seek: the first entry whose key is above the given key.
SeekAfter(tbl, key) ==
    LET above == {k \in DOMAIN tbl : k > key}
    IN  IF above = {} THEN NoValue ELSE Some(Min(above))

\* cursor.seek: the key of the first entry whose key is at or above the given
\* key, if there is one.
Seek(tbl, key) ==
    LET above == {k \in DOMAIN tbl : k >= key}
    IN  IF above = {} THEN NoValue ELSE Some(Min(above))

\* transaction_id
transaction_id(db, tx_hash) ==
    IF tx_hash \in DOMAIN db.TxHashNumber THEN Some(db.TxHashNumber[tx_hash]) ELSE NoValue

\* transaction_by_id
transaction_by_id(db, id) ==
    IF id \in DOMAIN db.Transactions THEN Some(db.Transactions[id]) ELSE NoValue

\* sealed_header: the header with the canonical hash of its number.
sealed_header(db, number) ==
    IF number \in DOMAIN db.Headers
    THEN IF number \in DOMAIN db.CanonicalHeaders
         THEN [kind |-> "Ok", error |-> <<>>,
               value |-> Some([header |-> db.Headers[number],
                               hash |-> db.CanonicalHeaders[number]])]
         ELSE [kind |-> "HeaderNotFound", error |-> number, value |-> NoValue]
    ELSE [kind |-> "Ok", error |-> <<>>, value |-> NoValue]

\* block_body_indices
block_body_indices(db, num) ==
    IF num \in DOMAIN db.BlockBodyIndices THEN Some(db.BlockBodyIndices[num]) ELSE NoValue

\* transaction_by_hash_with_meta
transaction_by_hash_with_meta(db, tx_hash) ==
    LET none == [kind |-> "Ok", error |-> <<>>, value |-> NoValue]
        transaction_id_ == transaction_id(db, tx_hash)
    IN  IF transaction_id_ = NoValue THEN none
        ELSE LET id == transaction_id_[1]
                 transaction == transaction_by_id(db, id)
                 found == Seek(db.TransactionBlock, id)
             IN  IF transaction = NoValue \/ found = NoValue THEN none
                 ELSE LET block_number == db.TransactionBlock[found[1]]
                          sealed == sealed_header(db, block_number)
                          block_body == block_body_indices(db, block_number)
                      IN  IF sealed.kind # "Ok" THEN sealed
                          ELSE IF sealed.value = NoValue \/ block_body = NoValue THEN none
                          ELSE [kind |-> "Ok", error |-> <<>>,
                                value |-> Some(
                                    [transaction |-> transaction[1],
                                     meta |-> [tx_hash |-> tx_hash,
                                               index |-> id - block_body[1].first_tx_num,
                                               block_hash |-> sealed.value[1].hash,
                                               block_number |-> block_number]])]

\* transaction_block
transaction_block(db, id) ==
    LET found == Seek(db.TransactionBlock, id)
    IN  IF found = NoValue THEN NoValue ELSE Some(db.TransactionBlock[found[1]])

RECURSIVE TxBefore(_, _)
\* The number of transactions of the blocks below a block.
TxBefore(counts, block) ==
    IF block = 0 THEN 0 ELSE TxBefore(counts, block - 1) + counts[block - 1]

\* A database the Headers and Bodies stages have left: blocks 0..tip, the
\* genesis block without transactions, every other block with a number of
\* transactions of TxCounts.  Transactions are numbered in block order, and
\* TransactionBlock has one row per block with transactions, keyed by the
\* number of the block's last transaction.
InitTx ==
    /\ AccountChangeSet = {}
    /\ StorageChangeSet = {}
    /\ AccountHistory = EmptyTable
    /\ StorageHistory = EmptyTable
    /\ last = NoOp
    /\ PlainAccountState = EmptyTable
    /\ PlainStorageState = {}
    /\ Receipts = EmptyTable
    /\ result = NoResult
    /\ junk = FALSE
    /\ HashedAccount = EmptyTable
    /\ HashedStorage = {}
    /\ AccountsTrie = incremental_root_with_updates(EmptyTable, {})
    /\ stage_checkpoint = [Headers |-> None, Bodies |-> None]
    /\ PostStates = EmptyTable
    /\ \E tip \in 0..MaxTxBlock :
        \E counts \in [0..tip -> TxCounts] :
            /\ counts[0] = 0
            /\ SyncStage = [Headers |-> tip, Bodies |-> tip]
            /\ Headers = [b \in 0..tip |->
                            [number |-> b, timestamp |-> b, state_root |-> BadStateRoot]]
            /\ CanonicalHeaders = [b \in 0..tip |-> BlockHash(b)]
            /\ HeaderNumbers = [h \in {BlockHash(b) : b \in 0..tip} |-> h - 10]
            /\ HeaderTD = [b \in 0..tip |-> b]
            /\ BlockOmmers = EmptyTable
            /\ BlockWithdrawals = EmptyTable
            /\ BlockBodyIndices = [b \in 0..tip |->
                                    [first_tx_num |-> TxBefore(counts, b),
                                     tx_count |-> counts[b]]]
            /\ Transactions = [n \in {x \in 0..TxBefore(counts, tip + 1) :
                                        x < TxBefore(counts, tip + 1)} |->
                                [hash |-> TxHash(n)]]
            /\ TxSenders = [n \in DOMAIN Transactions |-> 1]
            /\ TxHashNumber = [h \in {TxHash(n) : n \in DOMAIN Transactions} |-> h - 20]
            /\ TransactionBlock =
                [n \in {TxBefore(counts, b + 1) - 1 : b \in {x \in 0..tip : counts[x] > 0}} |->
                    CHOOSE b \in 0..tip : counts[b] > 0 /\ TxBefore(counts, b + 1) - 1 = n]

\* transaction_by_hash_with_meta(tx_hash), for the hashes of the transaction
\* numbers up to one past the highest the model can store.
TransactionByHashWithMeta ==
    \E n \in 0..(2 * MaxTxBlock) :
        /\ result' = transaction_by_hash_with_meta(Tables, TxHash(n))
        /\ last' = [op |-> "transaction_by_hash_with_meta", tx_hash |-> TxHash(n)]
        /\ ReadOnly

\* transaction_block(id)
TransactionBlockOf ==
    \E id \in 0..(2 * MaxTxBlock) :
        /\ result' = [kind |-> "Ok", error |-> <<>>, value |-> transaction_block(Tables, id)]
        /\ last' = [op |-> "transaction_block", id |-> id]
        /\ ReadOnly

\* get_take_block_range::<true>(lo..=tip): the blocks of a suffix are taken
\* out of the database, and the transaction is committed.
TxTakeBlockRange ==
    \E lo \in 1..MaxTxBlock :
        /\ lo \in DOMAIN Headers
        /\ \E res \in {get_take_block_range(TRUE, Tables, lo, Tip)} :
            /\ Commit(IF res.kind = "Ok" THEN res.db ELSE Tables)
            /\ result' = [kind |-> res.kind, error |-> <<>>, value |-> res.blocks]
        /\ last' = [op |-> "take_block_range", lo |-> lo, hi |-> Tip]
        /\ UNCHANGED <<PostStates, junk>>

NextTx ==
    \/ TransactionByHashWithMeta
    \/ TransactionBlockOf
    \/ TxTakeBlockRange

SpecTx == InitTx /\ [][NextTx]_vars

----------------------------------------------------------------------------
(* The Syncing subscription of eth_subscribe *)

\* In this model `last` holds the handler of one accepted Syncing
\* subscription (its position pc, its local initial_sync_status, the flag it
\* read last) together with what it reads: the network's is_syncing flag, the
\* best block number of the provider, the canonical-state events waiting in
\* its stream, and whether the stream has ended.  `result` holds the
\* subscription sink: the messages sent through it and whether it is closed.

\* Number of canonical-state events the chain emits in the model.
MaxCanonEvents == 3

\* EthPubSubInner::sync_status, chain_info being the best block number, if
\* the provider returns it.
sync_status(is_syncing, chain_info) ==
    IF is_syncing
    THEN LET current_block == IF chain_info = NoValue THEN 0 ELSE chain_info[1]
         IN  [kind |-> "Detailed", syncing |-> TRUE, starting_block |-> 0,
              current_block |-> current_block, highest_block |-> Some(current_block)]
    ELSE [kind |-> "Simple", syncing |-> FALSE]

\* Mutant of on_canonical_state: initial_sync_status is not updated when a
\* new status is sent.
on_canonical_state_keeping_initial(initial_sync_status, current_syncing) ==
    [send |-> current_syncing # initial_sync_status,
     initial_sync_status |-> initial_sync_status]

\* The body of the while loop of the Syncing subscription: whether a new
\* message is sent for the flag just read, and the value initial_sync_status
\* has after it.
on_canonical_state(initial_sync_status, current_syncing) ==
    IF current_syncing # initial_sync_status
    THEN [send |-> TRUE, initial_sync_status |-> current_syncing]
    ELSE [send |-> FALSE, initial_sync_status |-> initial_sync_status]

\* The tables play no part in the subscription; the handler has been called
\* with an accepted sink and has not run yet.
InitPubSub ==
    /\ AccountChangeSet = {}
    /\ StorageChangeSet = {}
    /\ AccountHistory = EmptyTable
    /\ StorageHistory = EmptyTable
    /\ SyncStage = [Execution |-> 0]
    /\ PlainAccountState = EmptyTable
    /\ PlainStorageState = {}
    /\ BlockBodyIndices = EmptyTable
    /\ Receipts = EmptyTable
    /\ junk = FALSE
    /\ Headers = EmptyTable
    /\ CanonicalHeaders = EmptyTable
    /\ HeaderNumbers = EmptyTable
    /\ HeaderTD = EmptyTable
    /\ BlockOmmers = EmptyTable
    /\ BlockWithdrawals = EmptyTable
    /\ Transactions = EmptyTable
    /\ TxSenders = EmptyTable
    /\ TxHashNumber = EmptyTable
    /\ TransactionBlock = EmptyTable
    /\ HashedAccount = EmptyTable
    /\ HashedStorage = {}
    /\ AccountsTrie = EmptyTable
    /\ stage_checkpoint = EmptyTable
    /\ PostStates = EmptyTable
    /\ \E is_syncing \in BOOLEAN :
        last = [op |-> "handle_accepted", pc |-> "subscribe",
                initial_sync_status |-> FALSE, msg |-> <<>>,
                is_syncing |-> is_syncing, best_number |-> 0,
                events |-> 0, emitted |-> 0, stream_ended |-> FALSE]
    /\ result = [kind |-> "sink", closed |-> FALSE, value |-> <<>>]

\* The tables, which the subscription leaves alone.
pubsubOtherVars ==
    <<AccountChangeSet, StorageChangeSet, AccountHistory, StorageHistory, SyncStage,
      PlainAccountState, PlainStorageState, BlockBodyIndices, Receipts, junk, chainVars>>

\* The network starts or stops syncing.
NetworkSyncChanges ==
    /\ last' = [last EXCEPT !.is_syncing = ~@]
    /\ UNCHANGED <<result, pubsubOtherVars>>

\* The chain commits a block and emits a canonical-state event.
CanonStateEvent ==
    /\ ~last.stream_ended
    /\ last.emitted < MaxCanonEvents
    /\ last' = [last EXCEPT !.emitted = @ + 1, !.best_number = @ + 1,
                            !.events = IF last.pc = "subscribe" THEN @ ELSE @ + 1]
    /\ UNCHANGED <<result, pubsubOtherVars>>

\* The sender of the canonical-state events is dropped: the stream ends after
\* the events that wait in it.
CanonStateStreamEnds ==
    /\ ~last.stream_ended
    /\ last' = [last EXCEPT !.stream_ended = TRUE]
    /\ UNCHANGED <<result, pubsubOtherVars>>

\* The subscriber goes away: sends to the sink fail from now on.
SubscriberCloses ==
    /\ ~result.closed
    /\ result' = [result EXCEPT !.closed = TRUE]
    /\ UNCHANGED <<last, pubsubOtherVars>>

\* The handler subscribes to the canonical state, reads the current sync
\* status and builds the message for it.
SyncingSubscribe ==
    /\ last.pc = "subscribe"
    /\ \E chain_info \in {Some(last.best_number), NoValue} :
        last' = [last EXCEPT !.pc = "send_current",
                             !.initial_sync_status = last.is_syncing,
                             !.msg = <<sync_status(last.is_syncing, chain_info)>>]
    /\ UNCHANGED <<result, pubsubOtherVars>>

\* "send the current status immediately"; a failed send returns Ok(()).
SyncingSendCurrent ==
    /\ last.pc = "send_current"
    /\ IF result.closed
       THEN /\ last' = [last EXCEPT !.pc = "returned", !.msg = <<>>]
            /\ UNCHANGED result
       ELSE /\ last' = [last EXCEPT !.pc = "next", !.msg = <<>>]
            /\ result' = [result EXCEPT !.value = Append(@, last.msg[1])]
    /\ UNCHANGED pubsubOtherVars

\* canon_state.next() yields an event: the handler reads is_syncing and, if
\* the status has changed, builds a new message.
SyncingNextEvent ==
    /\ last.pc = "next"
    /\ last.events > 0
    /\ \E chain_info \in {Some(last.best_number), NoValue} :
        LET step == on_canonical_state(last.initial_sync_status, last.is_syncing)
        IN  last' = [last EXCEPT
                        !.events = @ - 1,
                        !.initial_sync_status = step.initial_sync_status,
                        !.pc = IF step.send THEN "send_status" ELSE "next",
                        !.msg = IF step.send
                                THEN <<sync_status(last.is_syncing, chain_info)>>
                                ELSE <<>>]
    /\ UNCHANGED <<result, pubsubOtherVars>>

\* canon_state.next() yields None: the loop ends and the handler returns.
SyncingStreamEnded ==
    /\ last.pc = "next"
    /\ last.events = 0
    /\ last.stream_ended
    /\ last' = [last EXCEPT !.pc = "returned"]
    /\ UNCHANGED <<result, pubsubOtherVars>>

\* "send a new message now that the status changed"; a failed send breaks
\* out of the loop.
SyncingSendStatus ==
    /\ last.pc = "send_status"
    /\ IF result.closed
       THEN /\ last' = [last EXCEPT !.pc = "returned", !.msg = <<>>]
            /\ UNCHANGED result
       ELSE /\ last' = [last EXCEPT !.pc = "next", !.msg = <<>>]
            /\ result' = [result EXCEPT !.value = Append(@, last.msg[1])]
    /\ UNCHANGED pubsubOtherVars

NextPubSub ==
    \/ NetworkSyncChanges
    \/ CanonStateEvent
    \/ CanonStateStreamEnds
    \/ SubscriberCloses
    \/ SyncingSubscribe
    \/ SyncingSendCurrent
    \/ SyncingNextEvent
    \/ SyncingStreamEnded
    \/ SyncingSendStatus

SpecPubSub == InitPubSub /\ [][NextPubSub]_vars

----------------------------------------------------------------------------
(* The history-index stages with their input and output *)

\* Highest block number the execution stage produces in the stage model.
MaxStageBlock == 3

\* The values of commit_threshold the stages are built with.
CommitThresholds == {1, 2, 100}

\* ExecInput::target_reached
target_reached(input) == input.checkpoint >= input.target

\* ExecInput::next_block_range_with_threshold(threshold): the range and
\* whether it ends at the target.
next_block_range_with_threshold(input, threshold) ==
    LET start == input.checkpoint + 1
        end == Min({input.target, input.checkpoint + threshold})
    IN  [start |-> start, end |-> end, is_final_range |-> end = input.target]

\* UnwindInput::unwind_block_range_with_threshold(threshold): the range and
\* the block the stage has unwound to after it.
unwind_block_range_with_threshold(input, threshold) ==
    LET end == input.checkpoint
        start == IF input.unwind_to + 1 >= SatSub(end, threshold)
                 THEN input.unwind_to + 1 ELSE SatSub(end, threshold)
    IN  [start |-> start, end |-> end, unwind_progress |-> start - 1,
         is_final_range |-> start - 1 = input.unwind_to]

\* Mutant of IndexAccountHistoryStage_execute: the output checkpoint is the
\* target, not the end of the range.
IndexAccountHistoryStage_execute_target(db, commit_threshold, input) ==
    IF target_reached(input)
    THEN [db |-> db, checkpoint |-> input.checkpoint, done |-> TRUE]
    ELSE LET r == next_block_range_with_threshold(input, commit_threshold)
             indices == get_account_transition_ids_from_changeset(
                            db.AccountChangeSet, r.start, r.end)
         IN  [db |-> [db EXCEPT !.AccountHistory =
                                    insert_account_history_index(@, indices)],
              checkpoint |-> input.target, done |-> r.is_final_range]

\* Mutant of IndexAccountHistoryStage_execute: there is no early return when
\* the target has been reached.
IndexAccountHistoryStage_execute_always(db, commit_threshold, input) ==
    LET r == next_block_range_with_threshold(input, commit_threshold)
        indices == get_account_transition_ids_from_changeset(
                       db.AccountChangeSet, r.start, r.end)
    IN  [db |-> [db EXCEPT !.AccountHistory =
                               insert_account_history_index(@, indices)],
         checkpoint |-> r.end, done |-> r.is_final_range]

\* IndexAccountHistoryStage::execute
IndexAccountHistoryStage_execute(db, commit_threshold, input) ==
    IF target_reached(input)
    THEN [db |-> db, checkpoint |-> input.checkpoint, done |-> TRUE]
    ELSE LET r == next_block_range_with_threshold(input, commit_threshold)
             indices == get_account_transition_ids_from_changeset(
                            db.AccountChangeSet, r.start, r.end)
         IN  [db |-> [db EXCEPT !.AccountHistory =
                                    insert_account_history_index(@, indices)],
              checkpoint |-> r.end, done |-> r.is_final_range]

\* Mutant of IndexAccountHistoryStage_unwind: the output checkpoint is the
\* input checkpoint.
IndexAccountHistoryStage_unwind_staying(db, commit_threshold, input) ==
    LET r == unwind_block_range_with_threshold(input, commit_threshold)
    IN  [db |-> [db EXCEPT !.AccountHistory =
                    unwind_account_history_indices(@, db.AccountChangeSet, r.start, r.end)],
         checkpoint |-> input.checkpoint]

\* Mutant of IndexAccountHistoryStage_unwind: the range starts at the block
\* the stage unwinds to.
IndexAccountHistoryStage_unwind_inclusive(db, commit_threshold, input) ==
    LET r == unwind_block_range_with_threshold(input, commit_threshold)
    IN  [db |-> [db EXCEPT !.AccountHistory =
                    unwind_account_history_indices(@, db.AccountChangeSet,
                                                   SatSub(r.start, 1), r.end)],
         checkpoint |-> r.unwind_progress]

\* IndexAccountHistoryStage::unwind
IndexAccountHistoryStage_unwind(db, commit_threshold, input) ==
    LET r == unwind_block_range_with_threshold(input, commit_threshold)
    IN  [db |-> [db EXCEPT !.AccountHistory =
                    unwind_account_history_indices(@, db.AccountChangeSet, r.start, r.end)],
         checkpoint |-> r.unwind_progress]

\* IndexStorageHistoryStage::execute
IndexStorageHistoryStage_execute(db, commit_threshold, input) ==
    IF target_reached(input)
    THEN [db |-> db, checkpoint |-> input.checkpoint, done |-> TRUE]
    ELSE LET r == next_block_range_with_threshold(input, commit_threshold)
             indices == get_storage_transition_ids_from_changeset(
                            db.StorageChangeSet, r.start, r.end)
         IN  [db |-> [db EXCEPT !.StorageHistory =
                                    insert_storage_history_index(@, indices)],
              checkpoint |-> r.end, done |-> r.is_final_range]

\* IndexStorageHistoryStage::unwind
IndexStorageHistoryStage_unwind(db, commit_threshold, input) ==
    LET r == unwind_block_range_with_threshold(input, commit_threshold)
    IN  [db |-> [db EXCEPT !.StorageHistory =
                    unwind_storage_history_indices(@, db.StorageChangeSet, r.start, r.end)],
         checkpoint |-> r.unwind_progress]

\* The tables the three stages of the stage model do not write.
stageOtherVars ==
    <<PlainAccountState, PlainStorageState, BlockBodyIndices, Receipts, junk, chainVars>>

\* The two history tables.
HistoryTables == [AccountHistory |-> AccountHistory, StorageHistory |-> StorageHistory]

\* Execution stage: writes the account and storage changeset rows of the next
\* block.
StageExecutionExecute ==
    /\ SyncStage.Execution < MaxStageBlock
    /\ \E accounts \in SUBSET ReconAddresses, slots \in SUBSET ReconSlots :
        LET b == SyncStage.Execution + 1
        IN  /\ AccountChangeSet' = AccountChangeSet \cup
                    {[block |-> b, address |-> a, info |-> None] : a \in accounts}
            /\ StorageChangeSet' = StorageChangeSet \cup
                    {[block |-> b, address |-> sl[1], key |-> sl[2], value |-> 0] :
                        sl \in slots}
            /\ SyncStage' = [SyncStage EXCEPT !.Execution = b]
            /\ last' = [op |-> "execution", stage |-> "Execution"]
    /\ result' = NoResult
    /\ UNCHANGED <<AccountHistory, StorageHistory, stageOtherVars>>

\* Execution stage unwind: runs after the later stages have unwound and
\* removes the changeset rows above the unwind target.
StageExecutionUnwind ==
    /\ \E unwind_to \in 0..MaxStageBlock :
        /\ unwind_to < SyncStage.Execution
        /\ SyncStage.IndexAccountHistory <= unwind_to
        /\ SyncStage.IndexStorageHistory <= unwind_to
        /\ AccountChangeSet' = {r \in AccountChangeSet : r.block <= unwind_to}
        /\ StorageChangeSet' = {r \in StorageChangeSet : r.block <= unwind_to}
        /\ SyncStage' = [SyncStage EXCEPT !.Execution = unwind_to]
        /\ last' = [op |-> "execution_unwind", stage |-> "Execution"]
    /\ result' = NoResult
    /\ UNCHANGED <<AccountHistory, StorageHistory, stageOtherVars>>

\* The pipeline runs IndexAccountHistoryStage::execute from the stage's
\* checkpoint toward a target the execution stage has reached, and saves the
\* checkpoint of the output.
IndexAccountHistoryStageExecute ==
    \E commit_threshold \in CommitThresholds, target \in 0..MaxStageBlock :
        /\ SyncStage.IndexAccountHistory <= target
        /\ target <= SyncStage.Execution
        /\ LET input == [checkpoint |-> SyncStage.IndexAccountHistory, target |-> target]
           IN  \E out \in {IndexAccountHistoryStage_execute(Tables, commit_threshold, input)} :
                /\ AccountHistory' = out.db.AccountHistory
                /\ StorageHistory' = out.db.StorageHistory
                /\ SyncStage' = [SyncStage EXCEPT !.IndexAccountHistory = out.checkpoint]
                /\ result' = [kind |-> "Ok", checkpoint |-> out.checkpoint, done |-> out.done]
                /\ last' = [op |-> "execute", stage |-> "IndexAccountHistory",
                            input |-> input, commit_threshold |-> commit_threshold,
                            before |-> HistoryTables]
        /\ UNCHANGED <<AccountChangeSet, StorageChangeSet, stageOtherVars>>

\* The same for IndexStorageHistoryStage::execute.
IndexStorageHistoryStageExecute ==
    \E commit_threshold \in CommitThresholds, target \in 0..MaxStageBlock :
        /\ SyncStage.IndexStorageHistory <= target
        /\ target <= SyncStage.Execution
        /\ LET input == [checkpoint |-> SyncStage.IndexStorageHistory, target |-> target]
           IN  \E out \in {IndexStorageHistoryStage_execute(Tables, commit_threshold, input)} :
                /\ AccountHistory' = out.db.AccountHistory
                /\ StorageHistory' = out.db.StorageHistory
                /\ SyncStage' = [SyncStage EXCEPT !.IndexStorageHistory = out.checkpoint]
                /\ result' = [kind |-> "Ok", checkpoint |-> out.checkpoint, done |-> out.done]
                /\ last' = [op |-> "execute", stage |-> "IndexStorageHistory",
                            input |-> input, commit_threshold |-> commit_threshold,
                            before |-> HistoryTables]
        /\ UNCHANGED <<AccountChangeSet, StorageChangeSet, stageOtherVars>>

\* The pipeline runs IndexAccountHistoryStage::unwind from the stage's
\* checkpoint to unwind_to, and saves the checkpoint of the output.
IndexAccountHistoryStageUnwind ==
    \E commit_threshold \in CommitThresholds, unwind_to \in 0..MaxStageBlock :
        /\ unwind_to <= SyncStage.IndexAccountHistory
        /\ LET input == [checkpoint |-> SyncStage.IndexAccountHistory,
                         unwind_to |-> unwind_to]
           IN  \E out \in {IndexAccountHistoryStage_unwind(Tables, commit_threshold, input)} :
                /\ AccountHistory' = out.db.AccountHistory
                /\ StorageHistory' = out.db.StorageHistory
                /\ SyncStage' = [SyncStage EXCEPT !.IndexAccountHistory = out.checkpoint]
                /\ result' = [kind |-> "Ok", checkpoint |-> out.checkpoint]
                /\ last' = [op |-> "unwind", stage |-> "IndexAccountHistory",
                            input |-> input, commit_threshold |-> commit_threshold,
                            before |-> HistoryTables]
        /\ UNCHANGED <<AccountChangeSet, StorageChangeSet, stageOtherVars>>

\* The same for IndexStorageHistoryStage::unwind.
IndexStorageHistoryStageUnwind ==
    \E commit_threshold \in CommitThresholds, unwind_to \in 0..MaxStageBlock :
        /\ unwind_to <= SyncStage.IndexStorageHistory
        /\ LET input == [checkpoint |-> SyncStage.IndexStorageHistory,
                         unwind_to |-> unwind_to]
           IN  \E out \in {IndexStorageHistoryStage_unwind(Tables, commit_threshold, input)} :
                /\ AccountHistory' = out.db.AccountHistory
                /\ StorageHistory' = out.db.StorageHistory
                /\ SyncStage' = [SyncStage EXCEPT !.IndexStorageHistory = out.checkpoint]
                /\ result' = [kind |-> "Ok", checkpoint |-> out.checkpoint]
                /\ last' = [op |-> "unwind", stage |-> "IndexStorageHistory",
                            input |-> input, commit_threshold |-> commit_threshold,
                            before |-> HistoryTables]
        /\ UNCHANGED <<AccountChangeSet, StorageChangeSet, stageOtherVars>>

\* The pipeline runs execute of a history-index stage whose checkpoint lies
\* beyond the target it is given.
HistoryStageExecuteBeyondTarget ==
    \E commit_threshold \in CommitThresholds, target \in 0..MaxStageBlock,
       stage \in {"IndexAccountHistory", "IndexStorageHistory"} :
        /\ target < SyncStage[stage]
        /\ LET input == [checkpoint |-> SyncStage[stage], target |-> target]
           IN  \E out \in {IF stage = "IndexAccountHistory"
                           THEN IndexAccountHistoryStage_execute(Tables, commit_threshold, input)
                           ELSE IndexStorageHistoryStage_execute(Tables, commit_threshold,
                                                                 input)} :
                /\ AccountHistory' = out.db.AccountHistory
                /\ StorageHistory' = out.db.StorageHistory
                /\ SyncStage' = [SyncStage EXCEPT ![stage] = out.checkpoint]
                /\ result' = [kind |-> "Ok", checkpoint |-> out.checkpoint, done |-> out.done]
                /\ last' = [op |-> "execute_beyond_target", stage |-> stage,
                            input |-> input, commit_threshold |-> commit_threshold,
                            before |-> HistoryTables]
        /\ UNCHANGED <<AccountChangeSet, StorageChangeSet, stageOtherVars>>

\* get_take_block_execution_result_range over the empty range that follows
\* the last executed block.
ExecutionResultOfEmptyRange ==
    \E take \in BOOLEAN :
    \E res \in {get_take_block_execution_result_range(take, Tables,
                    SyncStage.Execution + 1, SyncStage.Execution)} :
        /\ Commit(IF res.kind = "Ok" THEN res.db ELSE Tables)
        /\ result' = [kind |-> res.kind, value |-> IF res.kind = "Ok" THEN res.value ELSE <<>>]
        /\ last' = [op |-> "get_take_block_execution_result_range", take |-> take,
                    lo |-> SyncStage.Execution + 1, hi |-> SyncStage.Execution,
                    before |-> Tables]
        /\ UNCHANGED <<PostStates, junk>>

NextStages ==
    \/ StageExecutionExecute
    \/ StageExecutionUnwind
    \/ IndexAccountHistoryStageExecute
    \/ IndexStorageHistoryStageExecute
    \/ IndexAccountHistoryStageUnwind
    \/ IndexStorageHistoryStageUnwind
    \/ HistoryStageExecuteBeyondTarget
    \/ ExecutionResultOfEmptyRange

SpecStages == Init /\ [][NextStages]_vars

----------------------------------------------------------------------------
(* Unwinding the account history index over any block range *)

\* The highest block of the chain whose index is unwound over any range.
MaxRangeBlock == 4

\* DatabaseProvider::unwind_account_history_indices called with a range of
\* indexed blocks that need not end at the highest indexed block.
UnwindAccountHistoryIndicesRange ==
    /\ \E lo \in 1..MaxBlock, hi \in 1..MaxBlock :
        /\ lo <= hi
        /\ hi <= SyncStage.IndexAccountHistory
        /\ AccountHistory' = unwind_account_history_indices(
                                AccountHistory, AccountChangeSet, lo, hi)
        /\ last' = [op |-> "unwind_account_range", lo |-> lo, hi |-> hi,
                    before |-> AccountHistory]
    /\ UNCHANGED <<AccountChangeSet, StorageChangeSet, StorageHistory, SyncStage,
                   stateVars>>
    /\ UNCHANGED chainVars

\* The execution stage up to block MaxRangeBlock.
RangeExecutionExecute ==
    /\ SyncStage.Execution < MaxRangeBlock
    /\ ExecutionExecuteAccounts

NextRange ==
    \/ RangeExecutionExecute
    \/ IndexAccountHistoryExecute
    \/ UnwindAccountHistoryIndicesRange

SpecRange == Init /\ [][NextRange]_vars

----------------------------------------------------------------------------
(* Both history indices over the same blocks *)

\* Number of blocks the execution stage writes in the model of both indices.
MaxIndexBlock == 2

\* Execution stage: writes the account and storage changeset rows of the next
\* block.
IndexExecutionExecute ==
    /\ SyncStage.Execution < MaxIndexBlock
    /\ \E accounts \in SUBSET Addresses, slots \in SUBSET StorageSlots :
        LET b == SyncStage.Execution + 1
        IN  /\ AccountChangeSet' = AccountChangeSet \cup
                    {[block |-> b, address |-> a, info |-> None] : a \in accounts}
            /\ StorageChangeSet' = StorageChangeSet \cup
                    {[block |-> b, address |-> sl[1], key |-> sl[2], value |-> 0] :
                        sl \in slots}
            /\ SyncStage' = [SyncStage EXCEPT !.Execution = b]
    /\ last' = [op |-> "execution", lo |-> SyncStage.Execution + 1,
                hi |-> SyncStage.Execution + 1, before |-> EmptyTable]
    /\ UNCHANGED <<AccountHistory, StorageHistory, stateVars, chainVars>>

\* Execution stage unwind: runs after both history-index stages have unwound
\* and removes the changeset rows above the unwind target.
IndexExecutionUnwind ==
    /\ \E unwind_to \in 0..MaxIndexBlock :
        /\ unwind_to < SyncStage.Execution
        /\ SyncStage.IndexAccountHistory <= unwind_to
        /\ SyncStage.IndexStorageHistory <= unwind_to
        /\ AccountChangeSet' = {r \in AccountChangeSet : r.block <= unwind_to}
        /\ StorageChangeSet' = {r \in StorageChangeSet : r.block <= unwind_to}
        /\ SyncStage' = [SyncStage EXCEPT !.Execution = unwind_to]
        /\ last' = [op |-> "execution_unwind", lo |-> unwind_to + 1,
                    hi |-> SyncStage.Execution, before |-> EmptyTable]
    /\ UNCHANGED <<AccountHistory, StorageHistory, stateVars, chainVars>>

NextIndex ==
    \/ IndexExecutionExecute
    \/ IndexExecutionUnwind
    \/ IndexAccountHistoryExecute
    \/ IndexAccountHistoryUnwind
    \/ IndexStorageHistoryExecute
    \/ IndexStorageHistoryUnwind

SpecIndex == Init /\ [][NextIndex]_vars

----------------------------------------------------------------------------
(* Properties of the account history index *)

\* The shard keys of one address.
AccountShardKeys(tbl, address) == {k \in DOMAIN tbl : k[1] = address}

\* The list of the open shard of an address, empty when there is none.
OpenAccountShard(tbl, address) ==
    IF <<address, U64_MAX>> \in DOMAIN tbl THEN tbl[<<address, U64_MAX>>] ELSE <<>>

\* The blocks of [lo, hi] in which the address has a changeset row, ascending.
ChangedBlocks(address, lo, hi) ==
    SortedSeq({r.block : r \in {x \in AccountChangeSet :
                    x.address = address /\ lo <= x.block /\ x.block <= hi}})

Elems(list) == {list[i] : i \in 1..Len(list)}

\* The table obtained by inserting only the blocks <= T, in one call.
InsertedOnly(T) ==
    insert_account_history_index(EmptyTable,
        get_account_transition_ids_from_changeset(AccountChangeSet, 1, T))

\* C1: after any sequence of inserts over successive ascending block ranges
\* followed by an unwind of the suffix range [T+1, tip], AccountHistory (shard
\* keys and lists) equals the table obtained by inserting only the blocks <= T.
C1_UnwindRestoresInsertedPrefix ==
    last.op = "unwind_account" =>
        AccountHistory = InsertedOnly(SyncStage.IndexAccountHistory)

\* An unwind that removed part of an index spanning a closed and an open shard
\* and left shards behind.
C1_Witness ==
    /\ last.op = "unwind_account"
    /\ \E k \in DOMAIN last.before : k[2] # U64_MAX
    /\ AccountHistory # EmptyTable
    /\ AccountHistory # last.before

\* C2: every stored shard list is non-empty and strictly increasing, every
\* element is <= the highest_block_number of its key, and every shard whose key
\* is not u64::MAX has exactly NUM_OF_INDICES_IN_SHARD elements.
C2_ShardPacking ==
    \A k \in DOMAIN AccountHistory :
        LET list == AccountHistory[k]
        IN  /\ Len(list) > 0
            /\ \A i \in 1..(Len(list) - 1) : list[i] < list[i + 1]
            /\ \A i \in 1..Len(list) : list[i] <= k[2]
            /\ k[2] # U64_MAX => Len(list) = NUM_OF_INDICES_IN_SHARD

\* Closed shards beside an open one, after an unwind and after an insert.
C2_Witness ==
    /\ \E k \in DOMAIN AccountHistory : k[2] # U64_MAX
    /\ \E k \in DOMAIN last.before : k[2] # U64_MAX
    /\ last.op = "unwind_account"

RECURSIVE UpTo(_, _)
UpTo(list, T) ==
    IF list = <<>> THEN <<>>
    ELSE IF Head(list) <= T THEN <<Head(list)>> \o UpTo(Tail(list), T)
    ELSE UpTo(Tail(list), T)

\* The addresses with a changeset row in the range of the last operation.
LastChanged == {r.address : r \in {x \in AccountChangeSet :
                                    last.lo <= x.block /\ x.block <= last.hi}}

\* Open shard entries before the last insert followed by its new block numbers.
LastInsertAll(a) ==
    OpenAccountShard(last.before, a) \o ChangedBlocks(a, last.lo, last.hi)

\* C4: when the open shard's entries concatenated with the new block numbers
\* of an address number more than NUM_OF_INDICES_IN_SHARD, the insert writes
\* each leading chunk (every chunk but the last) of exactly that many entries
\* under (address, last block of the chunk) and the remaining entries under
\* (address, u64::MAX); the shards that were closed before are not rewritten.
C4_InsertSplitsIntoChunks ==
    last.op = "insert_account" =>
        \A a \in LastChanged :
            LET all == LastInsertAll(a)
                leading == (Len(all) - 1) \div NUM_OF_INDICES_IN_SHARD
                closedBefore == AccountShardKeys(last.before, a) \ {<<a, U64_MAX>>}
                chunkKeys == {<<a, all[j * NUM_OF_INDICES_IN_SHARD]>> : j \in 1..leading}
            IN  Len(all) > NUM_OF_INDICES_IN_SHARD =>
                    /\ \A j \in 1..leading :
                         /\ <<a, all[j * NUM_OF_INDICES_IN_SHARD]>> \in DOMAIN AccountHistory
                         /\ AccountHistory[<<a, all[j * NUM_OF_INDICES_IN_SHARD]>>] =
                                SubSeq(all, (j - 1) * NUM_OF_INDICES_IN_SHARD + 1,
                                       j * NUM_OF_INDICES_IN_SHARD)
                    /\ <<a, U64_MAX>> \in DOMAIN AccountHistory
                    /\ AccountHistory[<<a, U64_MAX>>] =
                            SubSeq(all, leading * NUM_OF_INDICES_IN_SHARD + 1, Len(all))
                    /\ \A k \in closedBefore :
                         k \in DOMAIN AccountHistory /\ AccountHistory[k] = last.before[k]
                    /\ AccountShardKeys(AccountHistory, a) =
                            closedBefore \cup chunkKeys \cup {<<a, U64_MAX>>}

\* An insert that added to a non-empty open shard beside a closed one and
\* split off a new closed shard.
C4_Witness ==
    /\ last.op = "insert_account"
    /\ \E a \in LastChanged :
        /\ Len(LastInsertAll(a)) > NUM_OF_INDICES_IN_SHARD
        /\ OpenAccountShard(last.before, a) # <<>>
        /\ AccountShardKeys(last.before, a) \ {<<a, U64_MAX>>} # {}
        /\ Cardinality(AccountShardKeys(AccountHistory, a)) = 3

\* C5 as stated: an append that makes a shard exactly full splits it off as a
\* closed shard keyed by its last block number and writes no row under
\* (address, u64::MAX).
C5_Original_FullShardIsClosed ==
    last.op = "insert_account" =>
        \A a \in LastChanged :
            LET all == LastInsertAll(a)
            IN  Len(all) = NUM_OF_INDICES_IN_SHARD =>
                    /\ <<a, all[Len(all)]>> \in DOMAIN AccountHistory
                    /\ AccountHistory[<<a, all[Len(all)]>>] = all
                    /\ <<a, U64_MAX>> \notin DOMAIN AccountHistory

\* C5 amended: an append that makes a shard exactly full does not split it
\* off: the full list is the row under (address, u64::MAX) and no row is
\* written under (address, its last block number).
C5_FullShardStaysOpen ==
    last.op = "insert_account" =>
        \A a \in LastChanged :
            LET all == LastInsertAll(a)
            IN  Len(all) = NUM_OF_INDICES_IN_SHARD =>
                    /\ <<a, U64_MAX>> \in DOMAIN AccountHistory
                    /\ AccountHistory[<<a, U64_MAX>>] = all
                    /\ <<a, all[Len(all)]>> \notin DOMAIN AccountHistory

\* An insert into an address without shards that made its shard exactly full.
C5_Witness ==
    /\ last.op = "insert_account"
    /\ \E a \in LastChanged :
        /\ Len(LastInsertAll(a)) = NUM_OF_INDICES_IN_SHARD
        /\ AccountShardKeys(last.before, a) = {}

\* The shards of one address, as a table.
AccountShards(tbl, a) == [k \in AccountShardKeys(tbl, a) |-> tbl[k]]

\* C6: when the open shard's entries plus the new block numbers total exactly
\* NUM_OF_INDICES_IN_SHARD, executing the stage leaves all of them in the
\* single shard keyed u64::MAX and writes no closed shard, and a following
\* unwind of the same block range restores the original open shard.
C6_FillShardThenUnwind ==
    last.op = "insert_account" =>
        \A a \in LastChanged :
            Len(LastInsertAll(a)) = NUM_OF_INDICES_IN_SHARD =>
                /\ AccountShards(AccountHistory, a) =
                        (<<a, U64_MAX>> :> LastInsertAll(a))
                            @@ AccountShards(last.before, a)
                /\ LET unwound == unwind_account_history_indices(
                                    AccountHistory, AccountChangeSet, last.lo, last.hi)
                   IN  AccountShards(unwound, a) = AccountShards(last.before, a)

\* An insert that filled a non-empty open shard exactly.
C6_Witness ==
    /\ last.op = "insert_account"
    /\ \E a \in LastChanged :
        /\ Len(LastInsertAll(a)) = NUM_OF_INDICES_IN_SHARD
        /\ OpenAccountShard(last.before, a) # <<>>

\* The shards of address a, before the last unwind, that hold both an entry
\* <= T and an entry > T, T being the unwind target.
Straddling(a) ==
    {k \in AccountShardKeys(last.before, a) :
        /\ \E x \in Elems(last.before[k]) : x < last.lo
        /\ \E x \in Elems(last.before[k]) : x >= last.lo}

\* C7: in an unwind to T, the shard of an address that holds both an entry
\* <= T and an entry > T is deleted, exactly its entries <= T are reinserted
\* under (address, u64::MAX), and every shard of the address keyed above it is
\* deleted.
C7_BoundaryShardPrefixReinserted ==
    last.op = "unwind_account" =>
        \A a \in LastChanged :
            \A k \in Straddling(a) :
                /\ k[2] # U64_MAX => k \notin DOMAIN AccountHistory
                /\ <<a, U64_MAX>> \in DOMAIN AccountHistory
                /\ AccountHistory[<<a, U64_MAX>>] = UpTo(last.before[k], last.lo - 1)
                /\ \A above \in AccountShardKeys(last.before, a) :
                     (KeyLess(k, above) /\ above[2] # U64_MAX) =>
                        above \notin DOMAIN AccountHistory

\* An unwind whose boundary shard was a closed shard below the open shard.
C7_Witness ==
    /\ last.op = "unwind_account"
    /\ \E a \in LastChanged :
        \E k \in Straddling(a) :
            /\ k[2] # U64_MAX
            /\ <<a, U64_MAX>> \in DOMAIN last.before

\* The shard the descending walk of the last unwind stopped at without any of
\* its entries being unwound: all its entries are <= T, and every shard of the
\* address keyed above it holds only entries > T.
Survivor(a) ==
    {k \in AccountShardKeys(last.before, a) :
        /\ \A x \in Elems(last.before[k]) : x < last.lo
        /\ \E above \in AccountShardKeys(last.before, a) : KeyLess(k, above)
        /\ \A above \in AccountShardKeys(last.before, a) :
             KeyLess(k, above) => \A x \in Elems(last.before[above]) : x >= last.lo}

\* C8 as stated: the shard the walk reaches all of whose entries are <= T is
\* left in the table unchanged under its existing key.
C8_Original_SurvivorKeepsKey ==
    last.op = "unwind_account" =>
        \A a \in LastChanged :
            \A k \in Survivor(a) :
                k \in DOMAIN AccountHistory /\ AccountHistory[k] = last.before[k]

\* C8 amended: the shard the walk reaches all of whose entries are <= T is
\* deleted from its key and its whole list is reinserted under
\* (address, u64::MAX); the walk stops there, so every shard of the address
\* keyed below it stays unchanged under its key.
C8_SurvivorBecomesOpenShard ==
    last.op = "unwind_account" =>
        \A a \in LastChanged :
            \A k \in Survivor(a) :
                /\ k \notin DOMAIN AccountHistory
                /\ <<a, U64_MAX>> \in DOMAIN AccountHistory
                /\ AccountHistory[<<a, U64_MAX>>] = last.before[k]
                /\ \A below \in AccountShardKeys(last.before, a) :
                     KeyLess(below, k) =>
                        /\ below \in DOMAIN AccountHistory
                        /\ AccountHistory[below] = last.before[below]

\* An unwind that stopped at a surviving closed shard with another closed
\* shard below it.
C8_Witness ==
    /\ last.op = "unwind_account"
    /\ \E a \in LastChanged :
        \E k \in Survivor(a) :
            \E below \in AccountShardKeys(last.before, a) : KeyLess(below, k)

----------------------------------------------------------------------------
(* Storage history against account history *)

\* The account address standing for a storage slot: the slots in key order
\* are numbered like addresses.
SlotAddress(address, storage_key) == (address - 1) * Cardinality(StorageKeys) + storage_key

\* A storage history table read as an account history table.
AsAccountHistory(tbl) ==
    LET image == {<<SlotAddress(k[1], k[2]), k[3]>> : k \in DOMAIN tbl}
    IN  [ak \in image |->
            tbl[CHOOSE k \in DOMAIN tbl : <<SlotAddress(k[1], k[2]), k[3]>> = ak]]

\* The storage changeset rows read as account changeset rows.
AsAccountChangeSet(changeset) ==
    {[block |-> r.block, address |-> SlotAddress(r.address, r.key), info |-> None] :
        r \in changeset}

\* C9: storage-history insert and unwind on the logical key (address,
\* storage_key) produce exactly the shard layout that account-history insert
\* and unwind produce on the logical key address, given the same block-number
\* lists and unwind points: each storage operation acts on the table read as
\* an account table as the account operation does.
C9_StorageLayoutEqualsAccountLayout ==
    /\ last.op = "insert_storage" =>
            AsAccountHistory(StorageHistory) =
                insert_account_history_index(AsAccountHistory(last.before),
                    get_account_transition_ids_from_changeset(
                        AsAccountChangeSet(StorageChangeSet), last.lo, last.hi))
    /\ last.op = "unwind_storage" =>
            AsAccountHistory(StorageHistory) =
                unwind_account_history_indices(AsAccountHistory(last.before),
                    AsAccountChangeSet(StorageChangeSet), last.lo, last.hi)

\* A storage unwind over several slots that rewrote the shards of a slot with
\* a closed shard, in a table holding shards of its neighbouring slots.
C9_Witness ==
    /\ last.op = "unwind_storage"
    /\ \E k \in DOMAIN last.before : k[3] # U64_MAX
    /\ Cardinality({<<k[1], k[2]>> : k \in DOMAIN StorageHistory}) = 3
    /\ StorageHistory # last.before

----------------------------------------------------------------------------
(* Reverse reconstruction *)

\* The rows of the range whose recorded prior equals the value paired with it
\* as new (both absent included).
JunkRows(db, lo, hi) ==
    {row \in db.AccountChangeSet :
        lo <= row.block /\ row.block <= hi /\ row.info = PairedNew(db, row, hi)}

\* C10: reverse reconstruction over a block range returns the error
\* JunkChangeset (an error value, not a panic, and no PostState) when an
\* account changeset row's recorded prior equals the value paired with it as
\* new, or when both are absent.
C10_JunkChangesetIsReturnedAsError ==
    (last.op \in {"get_execution_result", "take_execution_result"}
        /\ JunkRows(last.before, last.lo, last.hi) # {})
    => result.kind = "JunkChangeset"

----------------------------------------------------------------------------
(* Appending and taking blocks *)

\* The tables a failed state-root verification of an unwind leaves alone.
UnwindUntouchedTables ==
    {"Headers", "CanonicalHeaders", "HeaderNumbers", "HeaderTD", "BlockOmmers",
     "BlockWithdrawals", "Transactions", "TxSenders", "TxHashNumber",
     "TransactionBlock", "Receipts", "AccountChangeSet", "StorageChangeSet",
     "PlainAccountState", "PlainStorageState", "BlockBodyIndices", "SyncStage"}

\* The state root of the hashed state of db with the blocks lo..=hi unwound.
UnwoundRoot(db, lo, hi) ==
    <<unwind_account_hashing(db.HashedAccount, db.AccountChangeSet, lo, hi),
      unwind_storage_hashing(db.HashedStorage, db.StorageChangeSet, lo, hi)>>

\* C11: when the state root computed during take_block_and_execution_range
\* over [lo, hi] differs from Headers[lo-1].stateRoot, the call fails with
\* UnwindStateRootMismatch carrying the computed root, the expected root,
\* block number lo-1 and that block's canonical hash, and at that point no
\* header, body, transaction, sender, receipt, changeset, plain-state,
\* BlockBodyIndices or SyncStage row has been deleted or modified.
C11_UnwindStateRootMismatch ==
    (/\ last.op = "take_block_and_execution_range"
     /\ UnwoundRoot(last.before, last.lo, last.hi)
            # last.before.Headers[last.lo - 1].state_root)
    => /\ result.kind = "UnwindStateRootMismatch"
       /\ result.error =
            [got |-> UnwoundRoot(last.before, last.lo, last.hi),
             expected |-> last.before.Headers[last.lo - 1].state_root,
             block_number |-> last.lo - 1,
             block_hash |-> last.before.CanonicalHeaders[last.lo - 1]]
       /\ \A t \in UnwindUntouchedTables : last.after[t] = last.before[t]
       /\ \A t \in UnwindUntouchedTables : Tables[t] = last.before[t]

\* A take over the top block of a chain of two failed the verification of the
\* state root after the hashed storage and the account history had been
\* unwound.
C11_Witness ==
    /\ last.op = "take_block_and_execution_range"
    /\ last.lo = 2
    /\ result.kind = "UnwindStateRootMismatch"
    /\ result.error.block_number = 1
    /\ last.after.HashedStorage # last.before.HashedStorage
    /\ last.after.AccountHistory # last.before.AccountHistory
    /\ last.before.Transactions # EmptyTable

\* The rows of an account changeset that lie in lo..=hi and belong to address.
AccountRowsOf(changeset, address, lo, hi) ==
    {r \in changeset : r.address = address /\ lo <= r.block /\ r.block <= hi}

\* The rows of a storage changeset that lie in lo..=hi and belong to a slot.
StorageRowsOf(changeset, address, key, lo, hi) ==
    {r \in changeset : r.address = address /\ r.key = key
                        /\ lo <= r.block /\ r.block <= hi}

\* The row of the lowest block among rows of one address or slot.
LowestRow(rows) == CHOOSE r \in rows : \A o \in rows : r.block <= o.block

\* The plain storage rows of one slot.
SlotRows(plain_storage, address, key) ==
    {r \in plain_storage : r.address = address /\ r.key = key}

\* C12: after take_block_and_execution_range over a suffix range [lo, hi]
\* whose changesets record true priors, every address and storage slot with a
\* changeset row in the range holds in PlainAccountState / PlainStorageState
\* the prior recorded by the lowest block of the range that changed it (no
\* row when that prior is no account or the value 0), and every other
\* plain-state row is unchanged.
C12_TakeRestoresLowestPriors ==
    (/\ last.op = "take_block_and_execution_range"
     /\ result.kind = "Ok"
     /\ JunkRows(last.before, last.lo, last.hi) = {})
    => /\ \A a \in Addresses :
            LET rows == AccountRowsOf(last.before.AccountChangeSet, a, last.lo, last.hi)
                before == last.before.PlainAccountState
            IN  IF rows = {}
                THEN /\ (a \in DOMAIN PlainAccountState) = (a \in DOMAIN before)
                     /\ a \in DOMAIN before => PlainAccountState[a] = before[a]
                ELSE IF LowestRow(rows).info = None
                THEN a \notin DOMAIN PlainAccountState
                ELSE /\ a \in DOMAIN PlainAccountState
                     /\ PlainAccountState[a] = LowestRow(rows).info
       /\ \A a \in Addresses, k \in StorageKeys :
            LET rows == StorageRowsOf(last.before.StorageChangeSet, a, k,
                                      last.lo, last.hi)
            IN  SlotRows(PlainStorageState, a, k) =
                    IF rows = {} THEN SlotRows(last.before.PlainStorageState, a, k)
                    ELSE IF LowestRow(rows).value = 0 THEN {}
                    ELSE {[address |-> a, key |-> k, value |-> LowestRow(rows).value]}

\* A take over two blocks that both changed an account and a slot: the first
\* block created the account and set the slot, the second destroyed the
\* account and cleared the slot, so the priors of the second block are not
\* those of the first, and the take leaves neither row.
C12_Witness ==
    /\ last.op = "take_block_and_execution_range"
    /\ result.kind = "Ok"
    /\ last.lo < last.hi
    /\ \E a \in Addresses :
        LET rows == AccountRowsOf(last.before.AccountChangeSet, a, last.lo, last.hi)
        IN  /\ Cardinality(rows) = 2
            /\ \E r \in rows : r.info # LowestRow(rows).info
            /\ a \notin DOMAIN PlainAccountState
            /\ \E k \in StorageKeys :
                LET slot == StorageRowsOf(last.before.StorageChangeSet, a, k,
                                          last.lo, last.hi)
                IN  /\ Cardinality(slot) = 2
                    /\ \E r \in slot : r.value # LowestRow(slot).value
                    /\ SlotRows(PlainStorageState, a, k) = {}

\* C13: for PostStates of the blocks [lo, hi] whose prior values match the
\* plain state before each block, writing them forward (changesets, plain
\* state, receipts) and then calling get_block_and_execution_range([lo, hi])
\* returns, per block, a PostState with the same account creations, changes
\* and destructions, the same per-slot (prior, new) storage changes and the
\* same receipts.
C13_RoundTrip ==
    (/\ last.op = "get_block_and_execution_range"
     /\ JunkRows(last.before, last.lo, last.hi) = {})
    => /\ result.kind = "Ok"
       /\ Len(result.value) = last.hi - last.lo + 1
       /\ \A i \in 1..Len(result.value) :
            /\ result.value[i].block.number = last.lo + i - 1
            /\ result.value[i].state.accounts = PostStates[last.lo + i - 1].accounts
            /\ result.value[i].state.storage = PostStates[last.lo + i - 1].storage
            /\ result.value[i].state.receipts = PostStates[last.lo + i - 1].receipts

\* A range of two blocks was read back: the first created an account and set
\* a slot and had a receipt, the second destroyed or changed the account and
\* cleared the slot.
C13_Witness ==
    /\ last.op = "get_block_and_execution_range"
    /\ result.kind = "Ok"
    /\ Len(result.value) = 2
    /\ \E c \in result.value[1].state.accounts : c.kind = "create"
    /\ \E c \in result.value[2].state.accounts : c.kind \in {"destroy", "change"}
    /\ \E c \in result.value[1].state.storage : c.old = 0 /\ c.new = 1
    /\ \E c \in result.value[2].state.storage : c.old = 1 /\ c.new = 0
    /\ result.value[1].state.receipts # <<>>

\* The rows of HashedStorage of one hashed address and hashed key.
HashedSlotRows(hashed_storage, hashed_address, hashed_key) ==
    {r \in hashed_storage : r.address = hashed_address /\ r.key = hashed_key}

\* The keys of the hashed tables in the model.
HashedKeys == {keccak256(x) : x \in Addresses \cup StorageKeys}

\* C14: after unwind_account_hashing and unwind_storage_hashing over
\* [lo, hi], for every address (and storage slot) with a changeset row in the
\* range, HashedAccount[keccak(address)]
\* (HashedStorage[keccak(address)][keccak(key)]) equals the prior recorded by
\* the lowest block of the range that changed it, the row being deleted when
\* that prior is no account or the storage value 0; rows of keys not changed in
\* the range are unchanged.
C14_UnwindHashingRestoresLowestPriors ==
    last.op = "take_block_and_execution_range"
    => /\ \A a \in Addresses :
            LET rows == AccountRowsOf(last.before.AccountChangeSet, a, last.lo, last.hi)
                h == keccak256(a)
            IN  rows # {} =>
                    IF LowestRow(rows).info = None
                    THEN h \notin DOMAIN last.after.HashedAccount
                    ELSE /\ h \in DOMAIN last.after.HashedAccount
                         /\ last.after.HashedAccount[h] = LowestRow(rows).info
       /\ \A h \in HashedKeys :
            (\A a \in Addresses : keccak256(a) = h =>
                AccountRowsOf(last.before.AccountChangeSet, a, last.lo, last.hi) = {})
            => /\ (h \in DOMAIN last.after.HashedAccount)
                    = (h \in DOMAIN last.before.HashedAccount)
               /\ h \in DOMAIN last.before.HashedAccount
                    => last.after.HashedAccount[h] = last.before.HashedAccount[h]
       /\ \A a \in Addresses, k \in StorageKeys :
            LET rows == StorageRowsOf(last.before.StorageChangeSet, a, k,
                                      last.lo, last.hi)
            IN  rows # {} =>
                    HashedSlotRows(last.after.HashedStorage, keccak256(a), keccak256(k)) =
                        IF LowestRow(rows).value = 0 THEN {}
                        ELSE {[address |-> keccak256(a), key |-> keccak256(k),
                               value |-> LowestRow(rows).value]}
       /\ \A ha \in HashedKeys, hk \in HashedKeys :
            (\A a \in Addresses, k \in StorageKeys :
                (keccak256(a) = ha /\ keccak256(k) = hk) =>
                    StorageRowsOf(last.before.StorageChangeSet, a, k,
                                  last.lo, last.hi) = {})
            => HashedSlotRows(last.after.HashedStorage, ha, hk)
                    = HashedSlotRows(last.before.HashedStorage, ha, hk)

\* A take over two blocks unwound the hashing of an account that both blocks
\* changed and that did not exist before the first, the prior of the second
\* block being an account, and of a slot that was zero before the range and
\* had a hashed entry.
C14_Witness ==
    /\ last.op = "take_block_and_execution_range"
    /\ last.lo < last.hi
    /\ \E a \in Addresses :
        LET rows == AccountRowsOf(last.before.AccountChangeSet, a, last.lo, last.hi)
        IN  /\ Cardinality(rows) = 2
            /\ LowestRow(rows).info = None
            /\ \E r \in rows : r.info # None
            /\ keccak256(a) \notin DOMAIN last.after.HashedAccount
            /\ \E k \in StorageKeys :
                LET slot == StorageRowsOf(last.before.StorageChangeSet, a, k,
                                          last.lo, last.hi)
                IN  /\ slot # {}
                    /\ LowestRow(slot).value = 0
                    /\ HashedSlotRows(last.before.HashedStorage,
                                      keccak256(a), keccak256(k)) # {}
                    /\ HashedSlotRows(last.after.HashedStorage,
                                      keccak256(a), keccak256(k)) = {}

\* C15: if HashedAccount and HashedStorage equal the keccak-keyed projection
\* of the plain state before a batch, then after insert_hashes over the batch
\* range [lo, hi] they again equal the keccak-keyed projection of
\* PlainAccountState / PlainStorageState (accounts absent from the plain state
\* and zero-valued slots being absent from the hashed tables).
C15_InsertHashesKeepsProjection ==
    (/\ last.op = "append_blocks"
     /\ last.before.HashedAccount = HashedAccounts(last.before.PlainAccountState)
     /\ last.before.HashedStorage = HashedStorages(last.before.PlainStorageState))
    => /\ last.after.HashedAccount = HashedAccounts(last.after.PlainAccountState)
       /\ last.after.HashedStorage = HashedStorages(last.after.PlainStorageState)
       /\ \A r \in last.after.HashedStorage : r.value # 0

\* insert_hashes ran over a block that destroyed an account and cleared a
\* slot, both present in the hashed tables before; and it ran over a batch of
\* two blocks.
C15_Witness ==
    /\ last.op = "append_blocks"
    /\ last.lo = 2
    /\ \E a \in Addresses :
        /\ keccak256(a) \in DOMAIN last.before.HashedAccount
        /\ keccak256(a) \notin DOMAIN last.after.HashedAccount
        /\ a \notin DOMAIN last.after.PlainAccountState
    /\ last.before.HashedStorage # {}
    /\ last.after.HashedStorage = {}

\* The slots with a storage changeset row in lo..=hi.
TouchedSlots(changeset, lo, hi) ==
    {<<r.address, r.key>> : r \in WalkRange(changeset, lo, hi)}

\* C16: after insert_storage_for_hashing, unwind_storage_hashing or the TAKE
\* write-back, for every (address, key) those operations touched there is at
\* most one entry in HashedStorage / PlainStorageState and none with value 0:
\* a slot whose value becomes 0 has its row deleted.
C16_OneEntryPerSlotAndNoZero ==
    last.op \in {"insert_storage_for_hashing", "unwind_storage_hashing"}
    => \A sl \in TouchedSlots(last.before.StorageChangeSet, last.lo, last.hi) :
        LET hashed == HashedSlotRows(HashedStorage, keccak256(sl[1]), keccak256(sl[2]))
            plain == SlotRows(PlainStorageState, sl[1], sl[2])
        IN  /\ Cardinality(hashed) <= 1
            /\ \A r \in hashed : r.value # 0
            /\ Cardinality(plain) <= 1
            /\ \A r \in plain : r.value # 0

\* An unwind of the second block touched a slot whose entry it replaced by one
\* of another value and a slot whose entry it deleted, the restored value
\* being zero, in both tables.
C16_Witness ==
    /\ last.op = "unwind_storage_hashing"
    /\ last.lo = 2
    /\ \E sl \in TouchedSlots(last.before.StorageChangeSet, last.lo, last.hi) :
        \E r \in HashedSlotRows(HashedStorage, keccak256(sl[1]), keccak256(sl[2])) :
            /\ r.value = 1
            /\ \E o \in HashedSlotRows(last.before.HashedStorage,
                                        keccak256(sl[1]), keccak256(sl[2])) : o.value = 2
            /\ SlotRows(PlainStorageState, sl[1], sl[2]) =
                    {[address |-> sl[1], key |-> sl[2], value |-> 1]}
    /\ \E sl \in TouchedSlots(last.before.StorageChangeSet, last.lo, last.hi) :
        /\ HashedSlotRows(last.before.HashedStorage,
                          keccak256(sl[1]), keccak256(sl[2])) # {}
        /\ HashedSlotRows(HashedStorage, keccak256(sl[1]), keccak256(sl[2])) = {}
        /\ SlotRows(last.before.PlainStorageState, sl[1], sl[2]) # {}
        /\ SlotRows(PlainStorageState, sl[1], sl[2]) = {}

\* C17: when the incremental state root computed by insert_hashes over
\* [lo, hi] differs from the state root of block hi, insert_hashes (and
\* append_blocks_with_post_state) fails with StateRootMismatch carrying block
\* number hi, its hash, the computed and the expected root; in that case the
\* trie updates are not flushed, the history indices are not extended and no
\* stage checkpoint is changed.
C17_StateRootMismatch ==
    (/\ last.op = "append_blocks"
     /\ incremental_root_with_updates(HashedAccounts(last.after.PlainAccountState),
                                      HashedStorages(last.after.PlainStorageState))
            # last.after.Headers[last.hi].state_root)
    => /\ result.kind = "StateRootMismatch"
       /\ result.error =
            [got |-> incremental_root_with_updates(
                        HashedAccounts(last.after.PlainAccountState),
                        HashedStorages(last.after.PlainStorageState)),
             expected |-> last.after.Headers[last.hi].state_root,
             block_number |-> last.hi,
             block_hash |-> last.after.CanonicalHeaders[last.hi]]
       /\ last.after.AccountsTrie = last.before.AccountsTrie
       /\ last.after.AccountHistory = last.before.AccountHistory
       /\ last.after.StorageHistory = last.before.StorageHistory
       /\ last.after.SyncStage = last.before.SyncStage
       /\ last.after.stage_checkpoint = last.before.stage_checkpoint
       /\ AccountsTrie = last.before.AccountsTrie
       /\ SyncStage = last.before.SyncStage

\* A batch of two blocks that changed accounts and storage was appended with
\* a wrong state root in its last header, on top of a state whose trie root
\* differs from the root computed for the batch.
C17_Witness ==
    /\ last.op = "append_blocks"
    /\ last.lo < last.hi
    /\ result.kind = "StateRootMismatch"
    /\ result.error.block_number = last.hi
    /\ result.error.got # last.before.AccountsTrie
    /\ AccountRowsOf(last.after.AccountChangeSet, 1, last.lo, last.hi) # {}
    /\ last.after.HashedStorage # {}

\* The stages in pipeline order.
PipelineOrder == <<"Execution", "IndexAccountHistory", "IndexStorageHistory">>

\* C18: after every successful append_blocks_with_post_state or
\* take_block_and_execution_range, every stage S in SyncStage has a block
\* number <= the block number of every stage that precedes S in the pipeline
\* order; all rows carry the same block number.
C18_StagesAgreeAfterAppendAndTake ==
    (/\ last.op \in {"append_blocks", "take_block_and_execution_range"}
     /\ result.kind = "Ok")
    => /\ \A i, j \in 1..Len(PipelineOrder) :
            i < j => SyncStage[PipelineOrder[j]] <= SyncStage[PipelineOrder[i]]
       /\ \A s, t \in DOMAIN SyncStage : SyncStage[s] = SyncStage[t]

\* An append succeeded on a database whose stages were at different blocks.
C18_Witness ==
    /\ last.op = "append_blocks"
    /\ result.kind = "Ok"
    /\ \E s, t \in DOMAIN last.before.SyncStage :
            last.before.SyncStage[s] # last.before.SyncStage[t]
    /\ \A s \in DOMAIN SyncStage : SyncStage[s] = last.hi

\* C19: after a successful take_block_and_execution_range over [lo, hi], every
\* stage's row in SyncStage has block_number = lo-1 and its stage-specific
\* progress reset to the default.
C19_TakeResetsStages ==
    (/\ last.op = "take_block_and_execution_range"
     /\ result.kind = "Ok")
    => /\ DOMAIN SyncStage = DOMAIN last.before.SyncStage
       /\ \A s \in DOMAIN SyncStage :
            /\ SyncStage[s] = last.lo - 1
            /\ stage_checkpoint[s] = None

\* A take of both blocks of a chain of two succeeded on a database in which a
\* stage had saved stage-specific progress and the stages were at different
\* blocks, none of them at lo-1.
C19_Witness ==
    /\ last.op = "take_block_and_execution_range"
    /\ result.kind = "Ok"
    /\ last.lo = 1
    /\ last.hi = 2
    /\ \E s \in DOMAIN SyncStage : last.before.stage_checkpoint[s] # None
    /\ \E s \in DOMAIN SyncStage : last.before.SyncStage[s] = 2
    /\ \E s \in DOMAIN SyncStage : last.before.SyncStage[s] = 1
    /\ \A s \in DOMAIN SyncStage : SyncStage[s] = 0

\* The transaction numbers of the blocks lo..=hi of db.
TxNumsOf(db, lo, hi) ==
    UNION {tx_num_range(db.BlockBodyIndices[b]) :
            b \in {x \in DOMAIN db.BlockBodyIndices : lo <= x /\ x <= hi}}

\* C20: after a successful take_block_and_execution_range over a suffix range
\* [lo, hi], no row keyed by a block number in [lo, hi] remains in Headers,
\* CanonicalHeaders, HeaderTD, BlockOmmers, BlockWithdrawals, BlockBodyIndices,
\* AccountChangeSet or StorageChangeSet, no row keyed by a transaction number
\* of those blocks remains in Transactions, TxSenders, Receipts or
\* TransactionBlock, and no HeaderNumbers / TxHashNumber entry for their hashes
\* remains.
C20_TakeRemovesRowsOfRange ==
    (/\ last.op = "take_block_and_execution_range"
     /\ result.kind = "Ok")
    => LET range == last.lo..last.hi
           tx_nums == TxNumsOf(last.before, last.lo, last.hi)
       IN  /\ \A keys \in {DOMAIN Headers, DOMAIN CanonicalHeaders, DOMAIN HeaderTD,
                            DOMAIN BlockOmmers, DOMAIN BlockWithdrawals,
                            DOMAIN BlockBodyIndices} :
                    keys \cap range = {}
           /\ \A r \in AccountChangeSet \cup StorageChangeSet : r.block \notin range
           /\ \A keys \in {DOMAIN Transactions, DOMAIN TxSenders, DOMAIN Receipts,
                            DOMAIN TransactionBlock} :
                    keys \cap tx_nums = {}
           /\ \A b \in range :
                    b \in DOMAIN last.before.CanonicalHeaders
                    => last.before.CanonicalHeaders[b] \notin DOMAIN HeaderNumbers
           /\ \A n \in tx_nums :
                    n \in DOMAIN last.before.Transactions
                    => last.before.Transactions[n].hash \notin DOMAIN TxHashNumber

\* A take removed two blocks that both had a transaction with a receipt and
\* changeset rows, one of them ommers and one withdrawals, while the block
\* tables keep the rows of the block below the range.
C20_Witness ==
    /\ last.op = "take_block_and_execution_range"
    /\ result.kind = "Ok"
    /\ last.lo = 1
    /\ last.hi = 2
    /\ Cardinality(TxNumsOf(last.before, 1, 2)) = 2
    /\ Cardinality(DOMAIN last.before.Receipts) = 2
    /\ Cardinality(DOMAIN last.before.TxHashNumber) = 2
    /\ DOMAIN last.before.HeaderNumbers = {BlockHash(0), BlockHash(1), BlockHash(2)}
    /\ DOMAIN last.before.BlockOmmers # {}
    /\ DOMAIN last.before.BlockWithdrawals # {}
    /\ last.before.AccountChangeSet # {}
    /\ last.before.StorageChangeSet # {}
    /\ DOMAIN Headers = {0}
    /\ DOMAIN HeaderNumbers = {BlockHash(0)}

----------------------------------------------------------------------------
(* The order of a take, reads of blocks, stages, table unwinds *)

\* The position of a statement in the statements a take has run.
StepIndex(name) ==
    IF \E i \in 1..Len(last.steps) : last.steps[i] = name
    THEN CHOOSE i \in 1..Len(last.steps) : last.steps[i] = name
    ELSE 0

\* A statement of a take runs and does not fail.
TakeStepRuns == last.op = "taking" /\ last'.op \in {"taking", "taken"}

\* The step-by-step take and get_take_block_and_execution_range agree on the
\* tables they leave and on what they return.
TakeStepsAgree ==
    last.op \in {"taken", "take_failed"} =>
        LET res == get_take_block_and_execution_range(TRUE, last.before, last.lo, last.hi)
        IN  /\ res.kind = result.kind
            /\ res.error = result.error
            /\ res.value = result.value
            /\ res.kind = "Ok" => res.db = Tables

\* C21 as stated: a take that has returned ran the account-hashing unwind,
\* then the storage-hashing unwind, then both history-index unwinds, then the
\* trie unwind with its state-root check, then the removal of the block
\* tables, then the update of the stage checkpoints.
C21_Original_HashingBeforeHistoryIndices ==
    last.op = "taken" =>
        /\ StepIndex("unwind_account_hashing") < StepIndex("unwind_storage_hashing")
        /\ StepIndex("unwind_storage_hashing") < StepIndex("unwind_account_history_indices")
        /\ StepIndex("unwind_storage_hashing") < StepIndex("unwind_storage_history_indices")
        /\ StepIndex("unwind_account_history_indices")
                < StepIndex("incremental_root_with_updates")
        /\ StepIndex("unwind_storage_history_indices")
                < StepIndex("incremental_root_with_updates")
        /\ StepIndex("incremental_root_with_updates") < StepIndex("get_take_block_range")
        /\ StepIndex("get_take_block_range") < StepIndex("update_pipeline_stages")

\* C21, amended: a take writes in this order: HashedAccount is unwound first,
\* then AccountHistory, then HashedStorage, then StorageHistory; then the trie
\* is flushed after the state-root check; then the block tables are removed,
\* then changesets, plain state and receipts, then BlockBodyIndices; the stage
\* checkpoints are updated last.  A table changes in its own statement only.
C21_TakeOrder ==
    [][TakeStepRuns =>
        /\ HashedAccount' # HashedAccount =>
                last'.steps = <<"unwind_account_hashing">>
        /\ AccountHistory' # AccountHistory =>
                last'.steps = <<"unwind_account_hashing", "unwind_account_history_indices">>
        /\ HashedStorage' # HashedStorage =>
                last'.steps = <<"unwind_account_hashing", "unwind_account_history_indices",
                                "unwind_storage_hashing">>
        /\ StorageHistory' # StorageHistory =>
                last'.steps = <<"unwind_account_hashing", "unwind_account_history_indices",
                                "unwind_storage_hashing", "unwind_storage_history_indices">>
        /\ AccountsTrie' # AccountsTrie =>
                last'.steps = <<"unwind_account_hashing", "unwind_account_history_indices",
                                "unwind_storage_hashing", "unwind_storage_history_indices",
                                "incremental_root_with_updates">>
        /\ blockVars' # blockVars =>
                last'.steps = <<"unwind_account_hashing", "unwind_account_history_indices",
                                "unwind_storage_hashing", "unwind_storage_history_indices",
                                "incremental_root_with_updates", "get_take_block_range">>
        /\ <<AccountChangeSet, StorageChangeSet, PlainAccountState, PlainStorageState,
             Receipts>>' # <<AccountChangeSet, StorageChangeSet, PlainAccountState,
                             PlainStorageState, Receipts>> =>
                last'.steps = <<"unwind_account_hashing", "unwind_account_history_indices",
                                "unwind_storage_hashing", "unwind_storage_history_indices",
                                "incremental_root_with_updates", "get_take_block_range",
                                "get_take_block_execution_result_range">>
        /\ BlockBodyIndices' # BlockBodyIndices =>
                last'.steps = <<"unwind_account_hashing", "unwind_account_history_indices",
                                "unwind_storage_hashing", "unwind_storage_history_indices",
                                "incremental_root_with_updates", "get_take_block_range",
                                "get_take_block_execution_result_range",
                                "take_block_body_indices">>
        /\ <<SyncStage, stage_checkpoint>>' # <<SyncStage, stage_checkpoint>> =>
                /\ last'.op = "taken"
                /\ last'.steps = <<"unwind_account_hashing", "unwind_account_history_indices",
                                   "unwind_storage_hashing", "unwind_storage_history_indices",
                                   "incremental_root_with_updates", "get_take_block_range",
                                   "get_take_block_execution_result_range",
                                   "take_block_body_indices", "update_pipeline_stages">>
        /\ last'.op = "taken" => Len(last'.steps) = 9]_vars

\* A take has returned Ok after changing all four unwound tables, the trie, the
\* block tables, the state and the stage checkpoints.
C21_Witness ==
    /\ last.op = "taken"
    /\ result.kind = "Ok"
    /\ HashedAccount # last.before.HashedAccount
    /\ AccountHistory # last.before.AccountHistory
    /\ HashedStorage # last.before.HashedStorage
    /\ StorageHistory # last.before.StorageHistory
    /\ AccountsTrie # last.before.AccountsTrie
    /\ Headers # last.before.Headers
    /\ PlainAccountState # last.before.PlainAccountState
    /\ BlockBodyIndices # last.before.BlockBodyIndices
    /\ SyncStage # last.before.SyncStage

\* The number a block id stands for in the database, if any.
NumberOf(id) ==
    IF id.kind = "Number" THEN Some(id.value)
    ELSE IF \E b \in DOMAIN CanonicalHeaders : CanonicalHeaders[b] = id.value
    THEN Some(CHOOSE b \in DOMAIN CanonicalHeaders : CanonicalHeaders[b] = id.value)
    ELSE NoValue

\* The withdrawals of a block with the given timestamp: none before Shanghai,
\* from Shanghai on the stored list, the empty list when no row is stored.
WithdrawalsRule(number, timestamp) ==
    IF timestamp < ShanghaiTimestamp THEN NoValue
    ELSE IF number \in DOMAIN BlockWithdrawals THEN Some(BlockWithdrawals[number])
    ELSE Some(<<>>)

\* C22: withdrawals_by_block(id, timestamp) answers None for a timestamp
\* before Shanghai; from Shanghai on it answers Some(list) for every block of
\* the database, the list being the stored row, or empty when no row is
\* stored.  Every block get_take_block_range returns carries the withdrawals
\* this rule gives for its number and its header's timestamp.
C22_WithdrawalsFollowShanghai ==
    /\ last.op = "withdrawals_by_block" =>
        /\ last.timestamp < ShanghaiTimestamp => result.value = NoValue
        /\ (last.timestamp >= ShanghaiTimestamp /\ NumberOf(last.id) # NoValue) =>
                result.value = WithdrawalsRule(NumberOf(last.id)[1], last.timestamp)
    /\ last.op = "get_block_range" =>
        \A i \in 1..Len(result.value) :
            LET block == result.value[i]
                rule == WithdrawalsRule(block.number, Headers[block.number].timestamp)
            IN  IF rule = NoValue THEN block.withdrawals = None
                ELSE rule[1] = block.withdrawals

\* withdrawals_by_block has answered Some(empty) for a block of the database
\* from Shanghai on that has no BlockWithdrawals row, after the database got
\* a row for a later block.
C22_Witness ==
    /\ last.op = "withdrawals_by_block"
    /\ last.id.kind = "Hash"
    /\ NumberOf(last.id) # NoValue
    /\ last.timestamp >= ShanghaiTimestamp
    /\ Headers[NumberOf(last.id)[1]].timestamp = last.timestamp
    /\ NumberOf(last.id)[1] \notin DOMAIN BlockWithdrawals
    /\ BlockWithdrawals # EmptyTable
    /\ result.value = Some(<<>>)

\* get_block_range has returned a block from before Shanghai without a
\* withdrawals list, a later block with an empty list and one with its stored list.
C22_RangeWitness ==
    /\ last.op = "get_block_range"
    /\ \E i, j, k \in 1..Len(result.value) :
        /\ result.value[i].withdrawals = None
        /\ <<>> = result.value[j].withdrawals
        /\ result.value[k].withdrawals # None
        /\ <<>> # result.value[k].withdrawals

\* C23: header_td_by_number(n) answers the final Paris total difficulty of the
\* chain spec for every n beyond the Paris block, whatever HeaderTD stores for
\* n, and otherwise the stored HeaderTD[n], None when there is no row.
C23_TotalDifficultyAfterParis ==
    last.op = "header_td_by_number" =>
        IF last.number > ParisBlock
        THEN result = [kind |-> "Ok", error |-> <<>>, value |-> Some(FinalParisDifficulty)]
        ELSE IF \E n \in DOMAIN HeaderTD : n = last.number
        THEN result = [kind |-> "Ok", error |-> <<>>, value |-> Some(HeaderTD[last.number])]
        ELSE result = [kind |-> "Ok", error |-> <<>>, value |-> NoValue]

\* header_td_by_number has answered the final Paris total difficulty for a
\* block beyond Paris whose HeaderTD row stores another value.
C23_Witness ==
    /\ last.op = "header_td_by_number"
    /\ last.number > ParisBlock
    /\ last.number \in DOMAIN HeaderTD
    /\ HeaderTD[last.number] # FinalParisDifficulty
    /\ result.value = Some(FinalParisDifficulty)

\* header_td_by_number has answered None for a block up to Paris without a row.
C23_AbsentWitness ==
    /\ last.op = "header_td_by_number"
    /\ last.number <= ParisBlock
    /\ last.number \notin DOMAIN HeaderTD
    /\ result.value = NoValue

\* The blocks the shards of an address, and of a storage slot, list.
IndexedAccountBlocks(tbl, address) ==
    UNION {Elems(tbl[k]) : k \in AccountShardKeys(tbl, address)}

IndexedStorageBlocks(tbl, slot) ==
    UNION {Elems(tbl[k]) : k \in {x \in DOMAIN tbl : x[1] = slot[1] /\ x[2] = slot[2]}}

\* The blocks of a set in which an address, and a storage slot, has a
\* changeset row.
AccountChangedIn(address, blocks) ==
    {r.block : r \in {x \in AccountChangeSet : x.address = address /\ x.block \in blocks}}

StorageChangedIn(slot, blocks) ==
    {r.block : r \in {x \in StorageChangeSet :
                        x.address = slot[1] /\ x.key = slot[2] /\ x.block \in blocks}}

C25_UnwindRetreatsToUnwindTo ==
    (/\ last.op = "unwind"
     /\ last.input.checkpoint - last.input.unwind_to <= last.commit_threshold) =>
        /\ result.checkpoint = last.input.unwind_to
        /\ SyncStage[last.stage] = last.input.unwind_to
        /\ IF last.stage = "IndexAccountHistory"
           THEN /\ \A a \in Addresses :
                    IndexedAccountBlocks(AccountHistory, a)
                        = {b \in IndexedAccountBlocks(last.before.AccountHistory, a) :
                                b <= last.input.unwind_to}
                /\ AccountHistory = unwind_account_history_indices(
                        last.before.AccountHistory, AccountChangeSet,
                        last.input.unwind_to + 1, last.input.checkpoint)
                /\ StorageHistory = last.before.StorageHistory
           ELSE /\ \A sl \in StorageSlots :
                    IndexedStorageBlocks(StorageHistory, sl)
                        = {b \in IndexedStorageBlocks(last.before.StorageHistory, sl) :
                                b <= last.input.unwind_to}
                /\ StorageHistory = unwind_storage_history_indices(
                        last.before.StorageHistory, StorageChangeSet,
                        last.input.unwind_to + 1, last.input.checkpoint)
                /\ AccountHistory = last.before.AccountHistory

\* unwind of IndexAccountHistory has retreated by exactly commit_threshold
\* blocks and removed indexed blocks.
C25_Witness ==
    /\ last.op = "unwind"
    /\ last.stage = "IndexAccountHistory"
    /\ last.commit_threshold = 2
    /\ last.input.checkpoint = 3
    /\ last.input.unwind_to = 1
    /\ result.checkpoint = 1
    /\ \E a \in Addresses :
        /\ IndexedAccountBlocks(last.before.AccountHistory, a) = {1, 2, 3}
        /\ IndexedAccountBlocks(AccountHistory, a) = {1}

\* C26: block_with_senders(n) answers Ok(None), not an error, when the
\* database has no block with number n.
C26_MissingBlockIsNone ==
    (last.op = "block_with_senders" /\ last.number \notin DOMAIN Headers) =>
        result = [kind |-> "Ok", error |-> <<>>, value |-> NoValue]

\* The keys of a table above num.
KeysAbove(tbl, num) == {k \in DOMAIN tbl : k > num}

\* C27: unwind_table_by_num(num) that returns Ok has deleted exactly the rows
\* whose key is greater than num, has left the row with key num and all rows
\* below it as they were, and returns the number of rows it deleted.
C27_UnwindTableByNumDeletesAbove ==
    (last.op = "unwind_table_by_num" /\ result.kind = "Ok") =>
        /\ DOMAIN HeaderTD = (DOMAIN last.before) \ KeysAbove(last.before, last.num)
        /\ \A k \in DOMAIN HeaderTD : HeaderTD[k] = last.before[k]
        /\ result.value = Cardinality(KeysAbove(last.before, last.num))
        /\ result.value = Cardinality((DOMAIN last.before) \ DOMAIN HeaderTD)

\* The same when every entry the walk meets can be read.
UnwindTableByNumOfReadableTable ==
    (/\ last.op = "unwind_table_by_num"
     /\ result.kind = "Ok"
     /\ last.read_fails \cap KeysAbove(last.before, last.num) = {}) =>
        /\ DOMAIN HeaderTD = (DOMAIN last.before) \ KeysAbove(last.before, last.num)
        /\ \A k \in DOMAIN HeaderTD : HeaderTD[k] = last.before[k]
        /\ result.value = Cardinality(KeysAbove(last.before, last.num))

\* The backward walk of the last unwind_table_by_num met an entry that could
\* not be read: every entry above it was above num.
ReadFailureMet ==
    \E f \in last.read_fails :
        /\ f \in DOMAIN last.before
        /\ \A k \in DOMAIN last.before : k > f => k > last.num

\* C28: when reading an entry fails during the backward walk of unwind_table,
\* the call returns an error, not a success value with the count of the rows
\* deleted so far.
C28_ReadFailureIsReturned ==
    (last.op = "unwind_table_by_num" /\ ReadFailureMet) => result.kind # "Ok"

\* C29: a history-index stage unwind whose unwind_to is its checkpoint leaves
\* every history shard as it was and stays at the checkpoint, and
\* get_take_block_execution_result_range over an empty range returns the
\* empty list and leaves every table as it was, taking or not.
C29_EmptyRangeIsNoOp ==
    /\ (last.op = "unwind" /\ last.input.unwind_to = last.input.checkpoint) =>
        /\ AccountHistory = last.before.AccountHistory
        /\ StorageHistory = last.before.StorageHistory
        /\ result.checkpoint = last.input.checkpoint
        /\ SyncStage[last.stage] = last.input.checkpoint
    /\ (last.op = "get_take_block_execution_result_range" /\ last.lo > last.hi) =>
        /\ result = [kind |-> "Ok", value |-> <<>>]
        /\ Tables = last.before

\* IndexAccountHistory has unwound to its checkpoint, a block whose changes
\* its shards list.
C29_Witness ==
    /\ last.op = "unwind"
    /\ last.stage = "IndexAccountHistory"
    /\ last.input.unwind_to = last.input.checkpoint
    /\ last.input.checkpoint = SyncStage.Execution
    /\ \E a \in Addresses :
        /\ last.input.checkpoint \in IndexedAccountBlocks(AccountHistory, a)
        /\ Cardinality(IndexedAccountBlocks(AccountHistory, a)) > 1

\* get_take_block_execution_result_range::<true> has been called with an
\* empty range on a database with changesets.
C29_TakeWitness ==
    /\ last.op = "get_take_block_execution_result_range"
    /\ last.take
    /\ last.lo > last.hi
    /\ AccountChangeSet # {}
    /\ StorageChangeSet # {}
    /\ result.value = <<>>

\* The row of a set of changeset rows with the lowest block.
OldestRow(rows) == CHOOSE r \in rows : \A o \in rows : r.block <= o.block

\* The value a storage slot has in a plain storage table, zero without a row.
PlainSlotValue(plain_storage, address, key) ==
    IF \E r \in plain_storage : r.address = address /\ r.key = key
    THEN (CHOOSE r \in plain_storage : r.address = address /\ r.key = key).value
    ELSE 0

\* The PostState returned for a block, empty when none was returned.
ReturnedState(block) ==
    IF \E i \in 1..Len(result.value) : result.value[i].block = block
    THEN (CHOOSE item \in Elems(result.value) : item.block = block).state
    ELSE EmptyPostState

\* C30: reverse reconstruction over [lo, hi] returns, for every changeset row
\* of the range, one change in the PostState of the row's block; its old value
\* is the prior of the row; its new value is the prior of the next-younger
\* row of the range for the same address (slot), and the current plain-state
\* value when the row is the youngest of the range for that address (slot).
C30_NewIsPriorOfNextYounger ==
    (last.op \in {"get_execution_result", "take_execution_result"} /\ result.kind = "Ok") =>
        LET db == last.before
            account_rows == {r \in db.AccountChangeSet :
                                last.lo <= r.block /\ r.block <= last.hi}
            storage_rows == {r \in db.StorageChangeSet :
                                last.lo <= r.block /\ r.block <= last.hi}
        IN  /\ \A row \in account_rows :
                LET younger == {r \in account_rows :
                                    r.address = row.address /\ r.block > row.block}
                    new == IF younger # {} THEN OldestRow(younger).info
                           ELSE IF row.address \in DOMAIN db.PlainAccountState
                           THEN db.PlainAccountState[row.address]
                           ELSE None
                    changes == {c \in ReturnedState(row.block).accounts :
                                    c.address = row.address}
                IN  /\ Cardinality(changes) = 1
                    /\ \A c \in changes : c.old = row.info /\ c.new = new
            /\ \A row \in storage_rows :
                LET younger == {r \in storage_rows :
                                    /\ r.address = row.address
                                    /\ r.key = row.key
                                    /\ r.block > row.block}
                    new == IF younger # {} THEN OldestRow(younger).value
                           ELSE PlainSlotValue(db.PlainStorageState, row.address, row.key)
                    changes == {c \in ReturnedState(row.block).storage :
                                    c.address = row.address /\ c.key = row.key}
                IN  /\ Cardinality(changes) = 1
                    /\ \A c \in changes : c.old = row.value /\ c.new = new
            /\ \A i \in 1..Len(result.value) :
                /\ \A c \in result.value[i].state.accounts :
                    \E row \in account_rows :
                        row.block = result.value[i].block /\ row.address = c.address
                /\ \A c \in result.value[i].state.storage :
                    \E row \in storage_rows :
                        /\ row.block = result.value[i].block
                        /\ row.address = c.address
                        /\ row.key = c.key

\* Reverse reconstruction has returned the PostStates of two blocks that both
\* changed the same address and the same slot, the plain state differing from
\* the prior of the younger block.
C30_Witness ==
    /\ last.op = "get_execution_result"
    /\ result.kind = "Ok"
    /\ last.lo = 1
    /\ last.hi = 2
    /\ \E a \in ReconAddresses :
        /\ \E c \in ReturnedState(1).accounts : c.address = a /\ c.new # None
        /\ \E c \in ReturnedState(2).accounts :
            /\ c.address = a
            /\ c.new # None
            /\ c.old # None
    /\ \E sl \in ReconSlots :
        /\ \E c \in ReturnedState(1).storage : c.address = sl[1] /\ c.key = sl[2]
        /\ \E c \in ReturnedState(2).storage : c.address = sl[1] /\ c.key = sl[2]

(* Takes, history indices, transaction lookups, sync status *)

\* The rows of a changeset table that lie in the range of the take.
RowsOfTake(rows) == {r \in rows : last.lo <= r.block /\ r.block <= last.hi}

\* The statement of this name has run in the take.
TakeRan(name) == \E i \in 1..Len(last.steps) : last.steps[i] = name

\* C31: while a take runs, the AccountChangeSet and StorageChangeSet rows of
\* its range are still those the call found until both hashing unwinds and
\* both history-index unwinds have run, and the BlockBodyIndices rows of the
\* range are still there until the blocks and the execution results of the
\* range have been read.
C31_RowsDeletedAfterTheirReaders ==
    last.op \in {"taking", "taken"} =>
        /\ (\/ RowsOfTake(AccountChangeSet) # RowsOfTake(last.before.AccountChangeSet)
            \/ RowsOfTake(StorageChangeSet) # RowsOfTake(last.before.StorageChangeSet)) =>
                /\ TakeRan("unwind_account_hashing")
                /\ TakeRan("unwind_storage_hashing")
                /\ TakeRan("unwind_account_history_indices")
                /\ TakeRan("unwind_storage_history_indices")
        /\ (\E b \in last.lo..last.hi :
                b \in DOMAIN last.before.BlockBodyIndices /\ b \notin DOMAIN BlockBodyIndices) =>
                /\ TakeRan("get_take_block_range")
                /\ TakeRan("get_take_block_execution_result_range")

\* A take has read and deleted the account and storage changeset rows of its
\* range after the four unwinds, and the BlockBodyIndices rows of the range
\* are still in the table.
C31_Witness ==
    /\ last.op = "taking"
    /\ TakeSteps[last.pc] = "take_block_body_indices"
    /\ RowsOfTake(last.before.AccountChangeSet) # {}
    /\ RowsOfTake(last.before.StorageChangeSet) # {}
    /\ RowsOfTake(AccountChangeSet) = {}
    /\ RowsOfTake(StorageChangeSet) = {}
    /\ last.lo < last.hi
    /\ \A b \in last.lo..last.hi : b \in DOMAIN BlockBodyIndices

\* Every block number above T that AccountHistory holds for an address has a
\* row of that address in AccountChangeSet, in a block of [T+1, tip].
IndexedAboveHaveRows(tbl, T, tip) ==
    \A a \in Addresses :
        \A b \in IndexedAccountBlocks(tbl, a) :
            b > T => b \in AccountChangedIn(a, (T + 1)..tip)

\* C32: if every indexed block number > T of every address has a matching
\* AccountChangeSet row in [T+1, tip], then after
\* unwind_account_history_indices([T+1, tip]) no shard holds a block number
\* > T, every block number <= T indexed before is still indexed, and an
\* address whose indexed blocks were all > T has no shard left.
C32_UnwindRemovesExactlyAboveT ==
    (last.op = "unwind_account"
        /\ IndexedAboveHaveRows(last.before, last.lo - 1, last.hi)) =>
        \A a \in Addresses :
            LET T == last.lo - 1
                before == IndexedAccountBlocks(last.before, a)
            IN  /\ \A b \in IndexedAccountBlocks(AccountHistory, a) : b <= T
                /\ \A b \in before : b <= T => b \in IndexedAccountBlocks(AccountHistory, a)
                /\ (\A b \in before : b > T) => AccountShardKeys(AccountHistory, a) = {}

\* An unwind to a block T >= 1 over a table in which one address was indexed
\* only above T, in a closed and an open shard, and another address both
\* above T and at or below T.
C32_Witness ==
    /\ last.op = "unwind_account"
    /\ last.lo > 1
    /\ IndexedAboveHaveRows(last.before, last.lo - 1, last.hi)
    /\ \E a, o \in Addresses :
        /\ a # o
        /\ Cardinality(AccountShardKeys(last.before, a)) > 1
        /\ \A b \in IndexedAccountBlocks(last.before, a) : b >= last.lo
        /\ AccountShardKeys(AccountHistory, a) = {}
        /\ \E b \in IndexedAccountBlocks(last.before, o) : b >= last.lo
        /\ IndexedAccountBlocks(AccountHistory, o) # {}

\* An unwind to block 0 of a table with closed shards leaves it empty.
C32_UnwindToZeroWitness ==
    /\ last.op = "unwind_account"
    /\ last.lo = 1
    /\ \E k \in DOMAIN last.before : k[2] # U64_MAX
    /\ AccountHistory = EmptyTable

\* The shards a history table holds for a storage slot.
StorageShards(tbl, slot) ==
    [k \in {x \in DOMAIN tbl : x[1] = slot[1] /\ x[2] = slot[2]} |-> tbl[k]]

\* C33: a history-index insert or unwind over a block range leaves the shards
\* of every address, and of every (address, storage_key) pair, that has no
\* changeset row in the range as they were: none is created, deleted or
\* modified, also when the backward walk of an unwind steps from the lowest
\* shard of one key onto a shard of the neighbouring key.
C33_OtherKeysUntouched ==
    /\ last.op \in {"insert_account", "unwind_account"} =>
        \A a \in Addresses :
            AccountChangedIn(a, last.lo..last.hi) = {} =>
                AccountShards(AccountHistory, a) = AccountShards(last.before, a)
    /\ last.op \in {"insert_storage", "unwind_storage"} =>
        \A sl \in StorageSlots :
            StorageChangedIn(sl, last.lo..last.hi) = {} =>
                StorageShards(StorageHistory, sl) = StorageShards(last.before, sl)

\* An unwind deleted every shard of a storage slot, so that its walk stepped
\* back onto the open shard of another storage key of the same address, which
\* has no row in the range and kept its shard.
C33_Witness ==
    /\ last.op = "unwind_storage"
    /\ StorageShards(last.before, <<1, 2>>) # <<>>
    /\ StorageShards(StorageHistory, <<1, 2>>) = <<>>
    /\ StorageChangedIn(<<1, 1>>, last.lo..last.hi) = {}
    /\ StorageShards(last.before, <<1, 1>>) # <<>>
    /\ StorageShards(StorageHistory, <<1, 1>>) = StorageShards(last.before, <<1, 1>>)

\* The same for addresses: the walk over the shards of address 2 stepped back
\* onto the open shard of address 1.
C33_AccountWitness ==
    /\ last.op = "unwind_account"
    /\ AccountShards(last.before, 2) # <<>>
    /\ AccountShards(AccountHistory, 2) = <<>>
    /\ AccountChangedIn(1, last.lo..last.hi) = {}
    /\ AccountShards(last.before, 1) # <<>>
    /\ AccountShards(AccountHistory, 1) = AccountShards(last.before, 1)

\* An insert created the first shard of an address between the shards of
\* other keys.
C33_InsertWitness ==
    /\ last.op = "insert_storage"
    /\ StorageShards(last.before, <<1, 2>>) = <<>>
    /\ StorageShards(StorageHistory, <<1, 2>>) # <<>>
    /\ StorageChangedIn(<<1, 1>>, last.lo..last.hi) = {}
    /\ StorageChangedIn(<<2, 2>>, last.lo..last.hi) = {}
    /\ StorageShards(last.before, <<1, 1>>) # <<>>
    /\ StorageShards(last.before, <<2, 2>>) # <<>>

\* What get_block_and_execution_range returns on the database a take found.
GetOnSameState ==
    get_take_block_and_execution_range(FALSE, last.before, last.lo, last.hi)

\* The rows get_or_take::<BlockBodyIndices, TAKE> returns for the range of
\* the last call on the database the call found.
BodyIndicesTaken(take) ==
    get_or_take(take, last.before.BlockBodyIndices, last.lo, last.hi)

\* The rows of a table with a key in [lo, hi], as (key, value) pairs.
RowsInRange(tbl, lo, hi) == {<<k, tbl[k]>> : k \in {x \in DOMAIN tbl : lo <= x /\ x <= hi}}

\* C34: on the same database state take_block_and_execution_range and
\* get_block_and_execution_range return the same list of (block, PostState)
\* pairs, or neither returns a list; get_block_and_execution_range, like
\* get_or_take with TAKE = false, leaves every table as it was; get_or_take
\* with TAKE = true returns the rows of the key range and deletes exactly
\* those rows.
C34_TakeReturnsWhatGetReturns ==
    /\ last.op = "take_block_and_execution_range" =>
        /\ result.kind = "Ok" <=> GetOnSameState.kind = "Ok"
        /\ result.kind = "Ok" => result.value = GetOnSameState.value
        /\ result.kind = "Ok" =>
            /\ BlockBodyIndices = BodyIndicesTaken(TRUE).tbl
            /\ Elems(BodyIndicesTaken(TRUE).items)
                    = RowsInRange(last.before.BlockBodyIndices, last.lo, last.hi)
            /\ \A k \in DOMAIN last.before.BlockBodyIndices :
                IF \E i \in 1..Len(BodyIndicesTaken(TRUE).items) :
                        BodyIndicesTaken(TRUE).items[i][1] = k
                THEN k \notin DOMAIN BlockBodyIndices
                ELSE /\ k \in DOMAIN BlockBodyIndices
                     /\ BlockBodyIndices[k] = last.before.BlockBodyIndices[k]
    /\ last.op = "get_block_and_execution_range" =>
        /\ Tables = last.before
        /\ BodyIndicesTaken(FALSE).tbl = BlockBodyIndices
        /\ BodyIndicesTaken(FALSE).items = BodyIndicesTaken(TRUE).items

\* A take over two blocks returned the list of both blocks with their
\* PostStates, which changed accounts and storage, and deleted their rows.
C34_Witness ==
    /\ last.op = "take_block_and_execution_range"
    /\ result.kind = "Ok"
    /\ last.lo < last.hi
    /\ Len(result.value) = 2
    /\ \A i \in 1..2 : result.value[i].state.accounts # {}
    /\ \E i \in 1..2 : result.value[i].state.storage # {}
    /\ Len(BodyIndicesTaken(TRUE).items) = 2

\* get_block_and_execution_range returned the list of two blocks.
C34_GetWitness ==
    /\ last.op = "get_block_and_execution_range"
    /\ result.kind = "Ok"
    /\ Len(result.value) = 2
    /\ \A i \in 1..2 : result.value[i].state.accounts # {}

\* The canonical blocks whose transaction numbers include the given number.
BlocksOfTx(id) ==
    {b \in DOMAIN BlockBodyIndices \cap DOMAIN CanonicalHeaders :
        /\ BlockBodyIndices[b].first_tx_num <= id
        /\ id < BlockBodyIndices[b].first_tx_num + BlockBodyIndices[b].tx_count}

\* C35: for a transaction hash of TxHashNumber whose transaction belongs to
\* the canonical block b, transaction_by_hash_with_meta returns block_number
\* b and index = transaction number - first transaction number of b, and
\* transaction_block returns b for the transaction's number, also when blocks
\* without transactions lie before or after b.
C35_TransactionLookupFindsItsBlock ==
    /\ (last.op = "transaction_by_hash_with_meta" /\ last.tx_hash \in DOMAIN TxHashNumber) =>
        \A b \in BlocksOfTx(TxHashNumber[last.tx_hash]) :
            /\ result.kind = "Ok"
            /\ result.value # NoValue
            /\ result.value[1].meta.block_number = b
            /\ result.value[1].meta.index
                    = TxHashNumber[last.tx_hash] - BlockBodyIndices[b].first_tx_num
            /\ result.value[1].meta.block_hash = CanonicalHeaders[b]
            /\ result.value[1].transaction.hash = last.tx_hash
    /\ last.op = "transaction_block" =>
        \A b \in BlocksOfTx(last.id) : result.value = Some(b)

\* The second transaction of a block was looked up by its hash, the blocks
\* before and after it having no transactions.
C35_Witness ==
    /\ last.op = "transaction_by_hash_with_meta"
    /\ result.kind = "Ok"
    /\ result.value # NoValue
    /\ result.value[1].meta.index = 1
    /\ result.value[1].meta.block_number = 2
    /\ 3 \in DOMAIN BlockBodyIndices
    /\ BlockBodyIndices[1].tx_count = 0
    /\ BlockBodyIndices[3].tx_count = 0

\* transaction_block found the block of a transaction that is not the last
\* one of its block, an empty block lying between it and the block before.
C35_BlockWitness ==
    /\ last.op = "transaction_block"
    /\ result.value = Some(3)
    /\ BlockBodyIndices[3].first_tx_num = last.id
    /\ BlockBodyIndices[3].tx_count = 2
    /\ BlockBodyIndices[2].tx_count = 0
    /\ BlockBodyIndices[1].tx_count > 0

\* The last message sent through the sink.
LastSent == result.value[Len(result.value)]

\* C36: the handler of an accepted Syncing subscription first sends the sync
\* status it read when it subscribed; afterwards it sends a message only for
\* a canonical-state event at which is_syncing differs from the status it
\* sent last, so that no two consecutive messages carry the same syncing
\* flag; after a send that failed it sends nothing more and has returned.
C36_SyncingSendsOnChangeOnly ==
    [][/\ last.pc = "subscribe" /\ last'.pc # "subscribe" =>
            /\ last'.pc = "send_current"
            /\ last'.msg[1].syncing = last.is_syncing
       /\ result'.value # result.value =>
            /\ result'.value = Append(result.value, last.msg[1])
            /\ IF result.value = <<>>
               THEN last.pc = "send_current"
               ELSE /\ last.pc = "send_status"
                    /\ last.msg[1].syncing # LastSent.syncing
       /\ last'.pc = "send_status" /\ last.pc # "send_status" =>
            /\ last.pc = "next"
            /\ last.events > 0
            /\ last'.events = last.events - 1
            /\ result.value # <<>>
            /\ last.is_syncing # LastSent.syncing
            /\ last'.msg[1].syncing = last.is_syncing
       /\ last.pc = "next" /\ last'.events < last.events /\ last'.pc = "next" =>
            last.is_syncing = LastSent.syncing
       /\ last.pc \in {"send_current", "send_status"} /\ last'.pc # last.pc =>
            IF result.closed
            THEN last'.pc = "returned" /\ result'.value = result.value
            ELSE last'.pc = "next" /\ Len(result'.value) = Len(result.value) + 1
       /\ last.pc = "returned" =>
            last'.pc = "returned" /\ result'.value = result.value]_vars

\* The handler has sent the status it found and a message for each of two
\* changes, three canonical-state events having arrived, one of them while
\* the status was the one sent last.
C36_Witness ==
    /\ last.pc = "next"
    /\ last.emitted = 3
    /\ last.events = 0
    /\ Len(result.value) = 3
    /\ result.value[1].syncing
    /\ ~result.value[2].syncing
    /\ result.value[3].syncing
    /\ result.value[3].current_block = 3

\* A send of a changed status failed: the handler has returned while
\* canonical-state events wait in its stream.
C36_FailedSendWitness ==
    /\ last.pc = "returned"
    /\ result.closed
    /\ ~last.stream_ended
    /\ last.events > 0
    /\ Len(result.value) = 1
    /\ last.initial_sync_status # result.value[1].syncing

\* The number of entries the shards of a history table hold.
RECURSIVE EntriesOf(_, _)
EntriesOf(tbl, keys) ==
    IF keys = {} THEN 0
    ELSE LET k == CHOOSE x \in keys : TRUE
         IN  Len(tbl[k]) + EntriesOf(tbl, keys \ {k})

\* No block number is held twice for an address or for a storage slot.
NoBlockIndexedTwice ==
    /\ \A a \in Addresses :
        EntriesOf(AccountHistory, AccountShardKeys(AccountHistory, a))
            = Cardinality(IndexedAccountBlocks(AccountHistory, a))
    /\ \A sl \in StorageSlots :
        EntriesOf(StorageHistory,
                  {x \in DOMAIN StorageHistory : x[1] = sl[1] /\ x[2] = sl[2]})
            = Cardinality(IndexedStorageBlocks(StorageHistory, sl))

\* C37: execute of a history-index stage whose input checkpoint has reached
\* the target writes nothing to AccountHistory and StorageHistory and returns
\* done = true with the input checkpoint; running a finished stage again does
\* not index a block number a second time.
C37_FinishedStageWritesNothing ==
    (last.op \in {"execute", "execute_beyond_target"}
        /\ last.input.checkpoint >= last.input.target) =>
        /\ HistoryTables = last.before
        /\ result.done
        /\ result.checkpoint = last.input.checkpoint
        /\ SyncStage[last.stage] = last.input.checkpoint
        /\ NoBlockIndexedTwice

\* execute of IndexAccountHistory has run again at its target, over an index
\* that holds a closed and an open shard of an address.
C37_Witness ==
    /\ last.op = "execute"
    /\ last.stage = "IndexAccountHistory"
    /\ last.input.checkpoint = last.input.target
    /\ last.input.checkpoint = 3
    /\ \E k \in DOMAIN AccountHistory : k[2] # U64_MAX
    /\ result.done

\* execute of IndexStorageHistory has run with a target below its checkpoint.
C37_BeyondTargetWitness ==
    /\ last.op = "execute_beyond_target"
    /\ last.stage = "IndexStorageHistory"
    /\ last.input.checkpoint > last.input.target
    /\ StorageHistory # EmptyTable
    /\ result.done

\* The statement of C38 as written: take_block_and_execution_range over
\* [lo, hi] never increases the block_number of any stage checkpoint; a stage
\* whose checkpoint was below lo-1 before the call still has that lower value.
C38_Original_TakeNeverRaisesACheckpoint ==
    (/\ last.op = "take_block_and_execution_range"
     /\ result.kind = "Ok")
    => \A s \in DOMAIN last.before.SyncStage :
            /\ SyncStage[s] <= last.before.SyncStage[s]
            /\ last.before.SyncStage[s] < last.lo - 1
                => SyncStage[s] = last.before.SyncStage[s]

\* C38: take_block_and_execution_range over [lo, hi] never increases the
\* block_number of a stage checkpoint that was at or above lo-1 before the
\* call; a stage whose checkpoint was below lo-1 before the call is raised to
\* lo-1.
C38_TakeRaisesOnlyLaggingStages ==
    (/\ last.op = "take_block_and_execution_range"
     /\ result.kind = "Ok")
    => \A s \in DOMAIN last.before.SyncStage :
            /\ last.before.SyncStage[s] >= last.lo - 1
                => SyncStage[s] <= last.before.SyncStage[s]
            /\ last.before.SyncStage[s] < last.lo - 1
                => SyncStage[s] = last.lo - 1

\* A take of block 2 alone succeeded on a database in which one stage stood at
\* block 0 and another at block 2: update_pipeline_stages wrote lo-1 = 1 into
\* both rows, raising the first and lowering the second.
C38_Witness ==
    /\ last.op = "take_block_and_execution_range"
    /\ result.kind = "Ok"
    /\ last.lo = 2
    /\ \E s, t \in DOMAIN last.before.SyncStage :
            /\ last.before.SyncStage[s] = 0
            /\ SyncStage[s] = 1
            /\ last.before.SyncStage[t] = 2
            /\ SyncStage[t] = 1

\* The statement of C39 as written: unwind_account_history_indices over
\* [lo, hi] removes from an address's index only block numbers inside
\* [lo, hi]; block numbers above hi that are indexed for the address remain
\* indexed, also when the range is not a suffix of the chain.
C39_Original_RemovesOnlyInsideRange ==
    last.op = "unwind_account_range" =>
        \A a \in Addresses :
            \A b \in IndexedAccountBlocks(last.before, a) :
                (b < last.lo \/ b > last.hi)
                    => b \in IndexedAccountBlocks(AccountHistory, a)

\* C39: unwind_account_history_indices over [lo, hi] removes from an
\* address's index only block numbers at or above lo: for an address with a
\* changeset row in [lo, hi] it removes every indexed block number from the
\* address's lowest changed block of the range upwards, block numbers above
\* hi included, so the removed numbers all lie inside [lo, hi] only when no
\* block above hi is indexed for the address; the index of an address without
\* a changeset row in the range is left as it was.
C39_RemovesFromLowestChangedUpwards ==
    last.op = "unwind_account_range" =>
        \A a \in Addresses :
            LET changed == AccountChangedIn(a, last.lo..last.hi)
                before == IndexedAccountBlocks(last.before, a)
                after == IndexedAccountBlocks(AccountHistory, a)
            IN  /\ after \subseteq before
                /\ \A b \in before \ after : b >= last.lo
                /\ changed = {} =>
                        AccountShards(AccountHistory, a) = AccountShards(last.before, a)
                /\ changed # {} => after = {b \in before : b < Min(changed)}

\* An unwind over a range below the highest indexed block removed, for an
\* address changed in the range, a block number above hi, while a second
\* address changed in a later block of the range only kept its block number
\* of the first block of the range.
C39_Witness ==
    /\ last.op = "unwind_account_range"
    /\ last.lo < last.hi
    /\ last.hi < SyncStage.IndexAccountHistory
    /\ \E a, o \in Addresses :
        /\ a # o
        /\ AccountChangedIn(a, last.lo..last.hi) # {}
        /\ \E b \in IndexedAccountBlocks(last.before, a) :
                b > last.hi /\ b \notin IndexedAccountBlocks(AccountHistory, a)
        /\ \E b \in IndexedAccountBlocks(last.before, a) :
                b < last.lo /\ b \in IndexedAccountBlocks(AccountHistory, a)
        /\ last.lo \notin AccountChangedIn(o, last.lo..last.hi)
        /\ AccountChangedIn(o, last.lo..last.hi) # {}
        /\ IndexedAccountBlocks(last.before, o) # IndexedAccountBlocks(AccountHistory, o)

\* C40: take_last_account_shard removes the shard keyed u64::MAX only when it
\* is not full; when that shard is full (holds NUM_OF_INDICES_IN_SHARD
\* entries) or no shard exists, it returns an empty list and leaves the table
\* unchanged.  Stated of the call insert_account_history_index makes for every
\* address changed in the inserted range.
C40_FullLastShardIsNotTaken ==
    last.op = "insert_account" =>
        \A a \in LastChanged :
            LET taken == take_last_account_shard(last.before, a)
                open == OpenAccountShard(last.before, a)
            IN  /\ (open = <<>> \/ Len(open) = NUM_OF_INDICES_IN_SHARD)
                    => /\ taken.list = <<>>
                       /\ taken.tbl = last.before
                /\ (open # <<>> /\ Len(open) < NUM_OF_INDICES_IN_SHARD)
                    => /\ taken.list = open
                       /\ taken.tbl = Delete(last.before, <<a, U64_MAX>>)

\* The same statement of take_last_storage_shard, for every storage slot
\* changed in the range insert_storage_history_index inserted.
C40_FullLastStorageShardIsNotTaken ==
    last.op = "insert_storage" =>
        \A r \in {x \in StorageChangeSet : last.lo <= x.block /\ x.block <= last.hi} :
            LET taken == take_last_storage_shard(last.before, r.address, r.key)
                key == <<r.address, r.key, U64_MAX>>
                open == IF key \in DOMAIN last.before THEN last.before[key] ELSE <<>>
            IN  /\ (open = <<>> \/ Len(open) = NUM_OF_INDICES_IN_SHARD)
                    => /\ taken.list = <<>>
                       /\ taken.tbl = last.before
                /\ (open # <<>> /\ Len(open) < NUM_OF_INDICES_IN_SHARD)
                    => /\ taken.list = open
                       /\ taken.tbl = Delete(last.before, key)

\* What the code does: the shard keyed u64::MAX is deleted and its list
\* returned whenever it exists, full or not.
TakeLastAccountShardTakesAnyOpenShard ==
    last.op = "insert_account" =>
        \A a \in LastChanged :
            LET taken == take_last_account_shard(last.before, a)
                open == OpenAccountShard(last.before, a)
            IN  /\ taken.list = open
                /\ open # <<>> => taken.tbl = Delete(last.before, <<a, U64_MAX>>)
                /\ open = <<>> => taken.tbl = last.before

\* An insert ran for an address whose shard keyed u64::MAX was full.
InsertOntoFullOpenShard ==
    /\ last.op = "insert_account"
    /\ \E a \in LastChanged :
            Len(OpenAccountShard(last.before, a)) = NUM_OF_INDICES_IN_SHARD

====
